---- MODULE Spec2Model ----
(***************************************************************************)
(* Model of the efficacy effect core: the Result algebra, the lazy Task,   *)
(* the pull-driven Stream and their interconversion.                       *)
(*                                                                         *)
(* Spec      the run of one Stream pipeline (a source, a chain of Stream   *)
(*           combinators, a for-await consumer or toTask), one generator   *)
(*           step per action.                                              *)
(* SpecTask  runs of composed Task values; a Task's run is the function    *)
(*           from the run's arguments (io, signal) to its settled outcome. *)
(* SpecAll   either of the two.                                            *)
(***************************************************************************)
EXTENDS Integers, Sequences, FiniteSets, TLC

\* Bounds of the model.
MaxSrc == 3     \* most emissions a source generator yields in one run
MaxSub == 2     \* most emissions a stream returned by a callback yields
MaxStages == 2  \* most combinators composed on a leaf Task
MaxList == 4     \* most assertions in the list handed to fold
MaxYields == 2   \* most states the initializer of a generator-based Task yields in one run
MaxAttempt == 8 \* most http capability calls one run of the retrying fetch makes

Values == {1, 2}
Errors == {"e1", "e2"}

----------------------------------------------------------------------------
\* Result algebra (result.ts)

taskOk(value) == [ok |-> TRUE, value |-> value]

taskFail(error) == [ok |-> FALSE, error |-> error]

isFailure(result) == ~result.ok

----------------------------------------------------------------------------
\* Progress-tagged results (stream.ts)

\* progress?: ProgressState left undefined
NoProgress == [has |-> FALSE]

Prog(total, current) == [has |-> TRUE, total |-> total, current |-> current]

progOk(value, progress) == [ok |-> TRUE, value |-> value, progress |-> progress]

progFail(error, progress) == [ok |-> FALSE, error |-> error, progress |-> progress]

----------------------------------------------------------------------------
\* The arguments of a run: the capability object and the cancellation token.

\* testValue 0 stands for a capability object without the field.
IOs == {[testValue |-> v] : v \in 0..2}

Signals == {"undefined", "live", "aborted"}

Ctx == [io : IOs, signal : Signals]

\* The settled promise of a Task run, with the callbacks invoked on the way.
Resolved(result, calls) == [kind |-> "resolved", result |-> result, calls |-> calls]

Rejected(err, calls) == [kind |-> "rejected", err |-> err, calls |-> calls]

Call(fn, arg) == [fn |-> fn.name, arg |-> arg]

----------------------------------------------------------------------------
\* Task (task.ts).  A Task owns run : (io, signal) -> Promise<Result>; it is
\* the function from the run's arguments to the settled outcome.  A callback
\* fn is the record [name, at] of its name and its table.

TaskCreate(init) == init

TaskOf(value) == [c \in Ctx |-> Resolved(taskOk(value), <<>>)]

TaskReject(error) == [c \in Ctx |-> Resolved(taskFail(error), <<>>)]

\* map handing the success back without applying fn.
TaskMapKeepsValue(prev, fn) ==
    [c \in Ctx |-> prev[c]]

TaskMap(prev, fn) ==
    [c \in Ctx |->
        LET r == prev[c] IN
        IF r.kind = "rejected" THEN r
        ELSE IF isFailure(r.result) THEN r
        ELSE Resolved(taskOk(fn.at[r.result.value]),
                      Append(r.calls, Call(fn, r.result.value)))]

\* flatMap without the short circuit: fn is invoked on a failure too.
TaskFlatMapNoShortCircuit(prev, fn) ==
    [c \in Ctx |->
        LET r == prev[c] IN
        IF r.kind = "rejected" THEN r
        ELSE LET arg == IF isFailure(r.result) THEN 1 ELSE r.result.value
                 next == fn.at[arg][c] IN
             [next EXCEPT !.calls = Append(r.calls, Call(fn, arg)) \o next.calls]]

\* flatMap returning the source's result when the next Task fails.
TaskFlatMapDropsNextFailure(prev, fn) ==
    [c \in Ctx |->
        LET r == prev[c] IN
        IF r.kind = "rejected" THEN r
        ELSE IF isFailure(r.result) THEN r
        ELSE LET next == fn.at[r.result.value][c] IN
             IF next.kind = "resolved" /\ isFailure(next.result)
             THEN [r EXCEPT !.calls = Append(r.calls, Call(fn, r.result.value)) \o next.calls]
             ELSE [next EXCEPT !.calls =
                      Append(r.calls, Call(fn, r.result.value)) \o next.calls]]

TaskFlatMap(prev, fn) ==
    [c \in Ctx |->
        LET r == prev[c] IN
        IF r.kind = "rejected" THEN r
        ELSE IF isFailure(r.result) THEN r
        ELSE LET next == fn.at[r.result.value][c] IN
             [next EXCEPT !.calls =
                 Append(r.calls, Call(fn, r.result.value)) \o next.calls]]

TaskMapError(prev, fn) ==
    [c \in Ctx |->
        LET r == prev[c] IN
        IF r.kind = "rejected" THEN r
        ELSE IF isFailure(r.result)
             THEN Resolved([ok |-> FALSE, error |-> fn.at[r.result.error]],
                           Append(r.calls, Call(fn, r.result.error)))
             ELSE r]

\* orElse running the recovery Task and returning the original failure.
TaskOrElseReturnsOriginal(prev, fn) ==
    [c \in Ctx |->
        LET r == prev[c] IN
        IF r.kind = "rejected" THEN r
        ELSE IF ~isFailure(r.result) THEN r
        ELSE LET recovery == fn.at[r.result.error][c] IN
             [r EXCEPT !.calls =
                 Append(r.calls, Call(fn, r.result.error)) \o recovery.calls]]

TaskOrElse(prev, fn) ==
    [c \in Ctx |->
        LET r == prev[c] IN
        IF r.kind = "rejected" THEN r
        ELSE IF ~isFailure(r.result) THEN r
        ELSE LET recovery == fn.at[r.result.error][c] IN
             [recovery EXCEPT !.calls =
                 Append(r.calls, Call(fn, r.result.error)) \o recovery.calls]]

TaskOrElseMap(prev, fn) ==
    [c \in Ctx |->
        LET r == prev[c] IN
        IF r.kind = "rejected" THEN r
        ELSE IF ~isFailure(r.result) THEN r
        ELSE Resolved(taskOk(fn.at[r.result.error]),
                      Append(r.calls, Call(fn, r.result.error)))]

\* Leaf initializers handed to Task.create (task.spec.ts): the one reading the
\* capability object (io.testValue || default) and the one reading the token.
ioInit ==
    [c \in Ctx |->
        Resolved([ok |-> TRUE,
                  value |-> IF c.io.testValue = 0 THEN 1 ELSE c.io.testValue], <<>>)]

cancellableInit(value, error) ==
    [c \in Ctx |->
        IF c.signal = "aborted"
        THEN Resolved([ok |-> FALSE, error |-> error], <<>>)
        ELSE Resolved([ok |-> TRUE, value |-> value], <<>>)]

\* Descriptors of the leaf Tasks the runs draw from, and the Task of each.
LeafDescs ==
    {[k |-> "of", v |-> v] : v \in Values}
        \cup {[k |-> "reject", e |-> e] : e \in Errors}
        \cup {[k |-> "io"], [k |-> "cancellable", v |-> 2, e |-> "e2"]}

LeafTask(d) ==
    CASE d.k = "of" -> TaskOf(d.v)
      [] d.k = "reject" -> TaskReject(d.e)
      [] d.k = "io" -> TaskCreate(ioInit)
      [] d.k = "cancellable" -> TaskCreate(cancellableInit(d.v, d.e))

\* A callback returning Tasks, from the table of the leaves it returns.
TaskFn(name, table) == [name |-> name, at |-> [x \in DOMAIN table |-> LeafTask(table[x])]]

\* A callback returning plain values.
ValueFn(name, table) == [name |-> name, at |-> table]

\* x => g(f(x))
Compose(f, g) == [name |-> "gof", at |-> [x \in DOMAIN f.at |-> g.at[f.at[x]]]]

\* x => Task.of(x), x => f(x).flatMap(g)
OfFn == [name |-> "of", at |-> [x \in Values |-> TaskOf(x)]]

ThenFn(f, g) == [name |-> "f_then_g", at |-> [x \in DOMAIN f.at |-> TaskFlatMap(f.at[x], g)]]

----------------------------------------------------------------------------
\* Stream (stream.ts).  A leaf Stream handed back by a callback is the script
\* of the emissions its generator yields.

StreamConst(value) == <<progOk(value, Prog(1, 1))>>

StreamNever(error) == <<progFail(error, NoProgress)>>

\* map rebuilding the success without its progress metadata.
MapBodyDropsProgress(fn, result) ==
    IF result.ok
    THEN [yield |-> progOk(fn.at[result.value], NoProgress), called |-> <<result.value>>]
    ELSE [yield |-> result, called |-> <<>>]

\* The body of each combinator's for-await loop, for one result of prev.
MapBody(fn, result) ==
    IF result.ok
    THEN [yield |-> progOk(fn.at[result.value], result.progress), called |-> <<result.value>>]
    ELSE [yield |-> result, called |-> <<>>]

\* mapError rebuilding the failure without its progress metadata.
MapErrorBodyDropsProgress(fn, result) ==
    IF result.ok
    THEN [yield |-> result, called |-> <<>>]
    ELSE [yield |-> progFail(fn.at[result.error], NoProgress), called |-> <<result.error>>]

MapErrorBody(fn, result) ==
    IF result.ok
    THEN [yield |-> result, called |-> <<>>]
    ELSE [yield |-> progFail(fn.at[result.error], result.progress), called |-> <<result.error>>]

\* orElseMap yielding the recovered value without the failure's progress.
OrElseMapBodyDropsProgress(fn, state) ==
    IF state.ok
    THEN [yield |-> state, called |-> <<>>]
    ELSE [yield |-> progOk(fn.at[state.error], NoProgress), called |-> <<state.error>>]

OrElseMapBody(fn, state) ==
    IF state.ok
    THEN [yield |-> state, called |-> <<>>]
    ELSE [yield |-> progOk(fn.at[state.error], state.progress), called |-> <<state.error>>]

\* flatMap swallowing a source failure instead of yielding it.
FlatMapBodyDropsFailure(fn, result) ==
    IF result.ok
    THEN [delegate |-> TRUE, nextStream |-> fn.at[result.value], called |-> <<result.value>>]
    ELSE [delegate |-> TRUE, nextStream |-> <<>>, called |-> <<>>]

\* flatMap taking only the first emission of the sub-stream.
FlatMapBodyFirstOnly(fn, result) ==
    IF result.ok
    THEN [delegate |-> TRUE,
          nextStream |-> IF fn.at[result.value] = <<>> THEN <<>>
                         ELSE <<fn.at[result.value][1]>>,
          called |-> <<result.value>>]
    ELSE [delegate |-> FALSE, yield |-> result, called |-> <<>>]

\* orElse yielding the failure itself, with no recovery.
OrElseBodyKeepsFailure(fn, state) ==
    [delegate |-> FALSE, yield |-> state, called |-> <<>>]

\* flatMap and orElse either yield the result or delegate (yield*) to the
\* stream the callback returns.
FlatMapBody(fn, result) ==
    IF result.ok
    THEN [delegate |-> TRUE, nextStream |-> fn.at[result.value], called |-> <<result.value>>]
    ELSE [delegate |-> FALSE, yield |-> result, called |-> <<>>]

OrElseBody(fn, state) ==
    IF state.ok
    THEN [delegate |-> FALSE, yield |-> state, called |-> <<>>]
    ELSE [delegate |-> TRUE, nextStream |-> fn.at[state.error], called |-> <<state.error>>]

\* toStream yielding the result without progress metadata.
ToStreamBodyNoProgress(result) ==
    IF isFailure(result)
    THEN progFail(result.error, NoProgress)
    ELSE progOk(result.value, NoProgress)

\* toStream emitting a success in the failure branch too.
ToStreamBodyAlwaysOk(result) ==
    IF isFailure(result)
    THEN progOk(1, Prog(1, 1))
    ELSE progOk(result.value, Prog(1, 1))

\* Task.toStream: the single emission made of the Task's result (task.ts).
ToStreamBody(result) ==
    IF isFailure(result)
    THEN progFail(result.error, Prog(1, 1))
    ELSE progOk(result.value, Prog(1, 1))

\* toTask taking the first result instead of the last.
ToTaskBodyFirst(results) ==
    IF Len(results) = 0
    THEN Rejected("Stream yielded no progress updates", <<>>)
    ELSE LET tail == results[1] IN
         Resolved(IF tail.ok THEN taskOk(tail.value) ELSE taskFail(tail.error), <<>>)

\* toTask reporting an empty stream as a typed failure.
ToTaskBodyTypedFailure(results) ==
    IF Len(results) = 0
    THEN Resolved(taskFail("e1"), <<>>)
    ELSE LET tail == results[Len(results)] IN
         Resolved(IF tail.ok THEN taskOk(tail.value) ELSE taskFail(tail.error), <<>>)

\* Stream.toTask, once collectProgress has returned results.
ToTaskBody(results) ==
    IF Len(results) = 0
    THEN Rejected("Stream yielded no progress updates", <<>>)
    ELSE LET tail == results[Len(results)] IN
         Resolved(IF tail.ok THEN taskOk(tail.value) ELSE taskFail(tail.error), <<>>)

\* A Task whose run has settled to outcome o: what a combinator chained on
\* it awaits.
Settled(o) == [c \in Ctx |-> o]

----------------------------------------------------------------------------
\* Inputs of a Stream run.

SrcProgress == {NoProgress, Prog(3, 2)}

\* What a source initializer may yield.
SrcEmissions ==
    {progOk(v, p) : v \in Values, p \in SrcProgress}
        \cup {progFail(e, p) : e \in Errors, p \in SrcProgress}

\* A callback's stream for the argument numbered x: one emission per entry of
\* shape (TRUE a success, FALSE a failure), each carrying x and its position.
SubShapes == UNION {[1..n -> BOOLEAN] : n \in 0..MaxSub}

Script(shape, x) ==
    [i \in 1..Len(shape) |->
        IF shape[i]
        THEN progOk(x + 10 * (i - 1), Prog(Len(shape), i))
        ELSE progFail(IF i = 1 THEN "e1" ELSE "e2", Prog(Len(shape), i))]

ErrVal(e) == IF e = "e1" THEN 1 ELSE 2

MapFns(name) == {ValueFn(name, t) : t \in [Values -> Values]}

ErrFns == {ValueFn("f", t) : t \in [Errors -> Errors]}

ErrValueFns == {ValueFn("f", t) : t \in [Errors -> Values]}

FlatFns ==
    {[name |-> "f", at |-> [x \in Values |-> Script(s, x)]] : s \in SubShapes}
        \cup {[name |-> "f", at |-> [x \in Values |-> StreamNever("e2")]]}

RecoverFns ==
    {[name |-> "f", at |-> [e \in Errors |-> Script(s, ErrVal(e))]] : s \in SubShapes}
        \cup {[name |-> "f", at |-> [e \in Errors |-> StreamNever(e)]]}

Stage(op, fn) == [op |-> op, fn |-> fn]

\* The pipelines a run draws from: which combinators are applied to the source.
IsPipeline(p) ==
    \/ p = <<>>
    \/ \E f \in MapFns("f") : p = <<Stage("map", f)>>
    \/ \E f \in MapFns("f"), g \in MapFns("g") : p = <<Stage("map", f), Stage("map", g)>>
    \/ \E f \in ErrFns : p = <<Stage("mapError", f)>>
    \/ \E f \in ErrValueFns : p = <<Stage("orElseMap", f)>>
    \/ \E f \in FlatFns : p = <<Stage("flatMap", f)>>
    \/ \E f \in RecoverFns : p = <<Stage("orElse", f)>>

CreateSource == [kind |-> "create"]

ToStreamSources == {[kind |-> "toStream", task |-> d] : d \in LeafDescs}

DefaultCtx == [io |-> [testValue |-> 0], signal |-> "undefined"]

----------------------------------------------------------------------------
VARIABLES
    source,     \* the Stream at the bottom: Stream.create(init) or task.toStream()
    stages,     \* the combinators applied to it, innermost first
    runCtx,     \* the (io, signal) the consumer runs the pipeline with
    gen,        \* per generator (0 the source's): pc, the args of its run, the stream it
                \* delegates to and the args of that stream's run
    ctl,        \* where control is: the generator (or consumer) and what it was handed
    out,        \* the emissions the consumer's for-await loop has received
    hist,       \* next() calls on the source, what it yielded, callbacks invoked, runs of the
                \* Task under toStream() with the arguments each received
    settled,    \* the outcome of the Task from toTask()
    chained,    \* the outcome of a Task combinator chained on that Task
    tlaw,       \* SpecTask: which composition was run
    targs,      \* SpecTask: the inputs of the run
    lhs,        \* SpecTask: the outcome of the composed Task
    rhs,        \* SpecTask: the outcome it is compared with
    http,       \* SpecHttp: the retrying fetch's generator: its position and locals
    token,      \* SpecHttp: the AbortSignal the fetch was run with
    task,       \* SpecRun: the Task value under construction, then run
    runs,       \* SpecRun: the state of each run of that Task value
    folded,     \* SpecFold: the arguments of a call of fold, then its result
    legacy      \* SpecLegacy: a Task of the generator-based class and its runs

streamVars == <<source, stages, runCtx, gen, ctl, out, hist, settled, chained>>

taskVars == <<tlaw, targs, lhs, rhs>>

httpVars == <<http, token>>

runVars == <<task, runs>>
libVars == <<folded, legacy>>

vars == <<source, stages, runCtx, gen, ctl, out, hist, settled, chained, tlaw, targs, lhs, rhs,
          http, token, task, runs, folded, legacy>>

Top == Len(stages)

Consumer == Top + 1

Fresh == [pc |-> "none", args |-> <<>>, sub |-> <<>>, subArgs |-> <<>>]

Pending == [kind |-> "pending"]

TaskIdle ==
    /\ tlaw = "none"
    /\ targs = <<>>
    /\ lhs = Pending
    /\ rhs = Pending

HttpIdle ==
    /\ http = [pc |-> "off"]
    /\ token = [state |-> "undefined"]

LibIdle ==
    /\ folded = [pc |-> "off"]
    /\ legacy = [pc |-> "off"]

RunIdle ==
    /\ task = [phase |-> "off"]
    /\ runs = <<>>

Init ==
    /\ IsPipeline(stages)
    /\ \/ source = CreateSource /\ runCtx = DefaultCtx
       \/ source \in ToStreamSources /\ runCtx \in Ctx
    /\ gen = [i \in 0..Len(stages) |-> Fresh]
    /\ ctl = [at |-> Len(stages) + 1, msg |-> "new"]
    /\ out = <<>>
    /\ hist = [pulls |-> 0, yielded |-> <<>>, calls |-> <<>>, runs |-> <<>>]
    /\ settled = Pending
    /\ chained = [op |-> "none"]
    /\ TaskIdle
    /\ LibIdle
    /\ HttpIdle
    /\ RunIdle

\* run(io, signal) entering the source's body at once.
RunPullsSource ==
    /\ ctl = [at |-> Consumer, msg |-> "new"]
    /\ gen' = [gen EXCEPT ![Top] = [pc |-> "created", args |-> <<runCtx>>, sub |-> <<>>,
                                     subArgs |-> <<>>]]
    /\ ctl' = [at |-> Consumer, msg |-> "idle"]
    /\ hist' = [hist EXCEPT !.pulls = 1]
    /\ UNCHANGED <<source, stages, runCtx, out, settled, chained>>
    /\ UNCHANGED <<taskVars, httpVars, runVars, libVars>>

\* stream.run(io, signal): the generator object is made, its body not entered.
Run ==
    /\ ctl = [at |-> Consumer, msg |-> "new"]
    /\ gen' = [gen EXCEPT ![Top] = [pc |-> "created", args |-> <<runCtx>>, sub |-> <<>>,
                                     subArgs |-> <<>>]]
    /\ ctl' = [at |-> Consumer, msg |-> "idle"]
    /\ UNCHANGED <<source, stages, runCtx, out, hist, settled, chained>>
    /\ UNCHANGED <<taskVars, httpVars, runVars, libVars>>

\* for await (const result of stream.run(io, signal)): next() on the pipeline.
ConsumerNext ==
    /\ ctl = [at |-> Consumer, msg |-> "idle"]
    /\ ctl' = [at |-> Top, msg |-> "next"]
    /\ UNCHANGED <<source, stages, runCtx, gen, out, hist, settled, chained>>
    /\ UNCHANGED <<taskVars, httpVars, runVars, libVars>>

\* results.push(result)
ConsumerPush ==
    /\ ctl.at = Consumer
    /\ ctl.msg = "yield"
    /\ out' = Append(out, ctl.em)
    /\ ctl' = [at |-> Consumer, msg |-> "idle"]
    /\ UNCHANGED <<source, stages, runCtx, gen, hist, settled, chained>>
    /\ UNCHANGED <<taskVars, httpVars, runVars, libVars>>

\* The pipeline is exhausted: the loop ends.
ConsumerEnd ==
    /\ ctl.at = Consumer
    /\ ctl.msg = "done"
    /\ ctl' = [at |-> Consumer, msg |-> "end"]
    /\ UNCHANGED <<source, stages, runCtx, gen, out, hist, settled, chained>>
    /\ UNCHANGED <<taskVars, httpVars, runVars, libVars>>

\* Leaving the loop with the source resumed once more on the way out.
ConsumerStopsDrains ==
    /\ ctl = [at |-> Consumer, msg |-> "idle"]
    /\ out # <<>>
    /\ gen' = [j \in DOMAIN gen |->
                  IF gen[j].pc = "none" THEN gen[j] ELSE [gen[j] EXCEPT !.pc = "done"]]
    /\ ctl' = [at |-> Consumer, msg |-> "stopped"]
    /\ hist' = [hist EXCEPT !.pulls = @ + 1]
    /\ UNCHANGED <<source, stages, runCtx, out, settled, chained>>
    /\ UNCHANGED <<taskVars, httpVars, runVars, libVars>>

\* The consumer leaves its for-await loop in the body (break): return() on the
\* pipeline's generator, which is suspended at a yield inside its own loop or
\* delegation; each generator below is returned in turn and none is resumed.
ConsumerStops ==
    /\ ctl = [at |-> Consumer, msg |-> "idle"]
    /\ out # <<>>
    /\ gen' = [j \in DOMAIN gen |->
                  IF gen[j].pc = "none" THEN gen[j] ELSE [gen[j] EXCEPT !.pc = "done"]]
    /\ ctl' = [at |-> Consumer, msg |-> "stopped"]
    /\ UNCHANGED <<source, stages, runCtx, out, hist, settled, chained>>
    /\ UNCHANGED <<taskVars, httpVars, runVars, libVars>>

\* The source generator, Stream.create(init): it yields one more emission.
SourceYield ==
    /\ source = CreateSource
    /\ ctl = [at |-> 0, msg |-> "next"]
    /\ Len(hist.yielded) < MaxSrc
    /\ \E e \in SrcEmissions :
        /\ ctl' = [at |-> 1, msg |-> "yield", em |-> e]
        /\ hist' = [hist EXCEPT !.pulls = @ + 1, !.yielded = Append(@, e)]
    /\ gen' = [gen EXCEPT ![0].pc = "yield"]
    /\ UNCHANGED <<source, stages, runCtx, out, settled, chained>>
    /\ UNCHANGED <<taskVars, httpVars, runVars, libVars>>

\* The source generator's body ends.
SourceReturn ==
    /\ source = CreateSource
    /\ ctl = [at |-> 0, msg |-> "next"]
    /\ ctl' = [at |-> 1, msg |-> "done"]
    /\ hist' = [hist EXCEPT !.pulls = @ + 1]
    /\ gen' = [gen EXCEPT ![0].pc = "done"]
    /\ UNCHANGED <<source, stages, runCtx, out, settled, chained>>
    /\ UNCHANGED <<taskVars, httpVars, runVars, libVars>>

\* Task.toStream: const result = await prev(io, signal); yield it.
ToStreamYield ==
    /\ source.kind = "toStream"
    /\ ctl = [at |-> 0, msg |-> "next"]
    /\ gen[0].pc = "created"
    /\ LET r == LeafTask(source.task)[gen[0].args[1]] IN
        /\ r.kind = "resolved"
        /\ ctl' = [at |-> 1, msg |-> "yield", em |-> ToStreamBody(r.result)]
        /\ hist' = [hist EXCEPT !.pulls = @ + 1,
                                !.yielded = Append(@, ToStreamBody(r.result)),
                                !.runs = Append(@, gen[0].args[1])]
    /\ gen' = [gen EXCEPT ![0].pc = "yield"]
    /\ UNCHANGED <<source, stages, runCtx, out, settled, chained>>
    /\ UNCHANGED <<taskVars, httpVars, runVars, libVars>>

ToStreamReturn ==
    /\ source.kind = "toStream"
    /\ ctl = [at |-> 0, msg |-> "next"]
    /\ gen[0].pc = "yield"
    /\ ctl' = [at |-> 1, msg |-> "done"]
    /\ hist' = [hist EXCEPT !.pulls = @ + 1]
    /\ gen' = [gen EXCEPT ![0].pc = "done"]
    /\ UNCHANGED <<source, stages, runCtx, out, settled, chained>>
    /\ UNCHANGED <<taskVars, httpVars, runVars, libVars>>

\* A combinator's generator is entered: for await (... of prev(io, signal)).
StageStart(i) ==
    /\ ctl = [at |-> i, msg |-> "next"]
    /\ gen[i].pc = "created"
    /\ gen' = [gen EXCEPT ![i].pc = "loop",
                          ![i - 1] = [pc |-> "created", args |-> gen[i].args, sub |-> <<>>,
                                      subArgs |-> <<>>]]
    /\ ctl' = [at |-> i - 1, msg |-> "next"]
    /\ UNCHANGED <<source, stages, runCtx, out, hist, settled, chained>>
    /\ UNCHANGED <<taskVars, httpVars, runVars, libVars>>

\* Resumed after a yield of its own: the loop asks prev for the next result.
StageResume(i) ==
    /\ ctl = [at |-> i, msg |-> "next"]
    /\ gen[i].pc = "yield"
    /\ gen' = [gen EXCEPT ![i].pc = "loop"]
    /\ ctl' = [at |-> i - 1, msg |-> "next"]
    /\ UNCHANGED <<source, stages, runCtx, out, hist, settled, chained>>
    /\ UNCHANGED <<taskVars, httpVars, runVars, libVars>>

\* yield* nextStream.run(io, signal): the delegate yields.
SubYield(i) ==
    /\ ctl = [at |-> i, msg |-> "next"]
    /\ gen[i].pc = "sub"
    /\ gen[i].sub # <<>>
    /\ ctl' = [at |-> i + 1, msg |-> "yield", em |-> Head(gen[i].sub)]
    /\ gen' = [gen EXCEPT ![i].sub = Tail(@)]
    /\ UNCHANGED <<source, stages, runCtx, out, hist, settled, chained>>
    /\ UNCHANGED <<taskVars, httpVars, runVars, libVars>>

\* The delegate is exhausted: the loop asks prev for the next result.
SubReturn(i) ==
    /\ ctl = [at |-> i, msg |-> "next"]
    /\ gen[i].pc = "sub"
    /\ gen[i].sub = <<>>
    /\ gen' = [gen EXCEPT ![i].pc = "loop"]
    /\ ctl' = [at |-> i - 1, msg |-> "next"]
    /\ UNCHANGED <<source, stages, runCtx, out, hist, settled, chained>>
    /\ UNCHANGED <<taskVars, httpVars, runVars, libVars>>

\* A callback: its table, and the arguments on which it throws.
Callback(table, throwsOn) == [name |-> "f", at |-> table, throwsOn |-> throwsOn]

\* A callback that returns for every argument.
NeverThrows(fn, x) == FALSE

Throws(fn, x) == "throwsOn" \in DOMAIN fn /\ x \in fn.throwsOn

\* The callback of stage i is invoked for the emission em.
Invokes(i, em) == em.ok <=> stages[i].op \in {"map", "flatMap"}

CallbackArg(em) == IF em.ok THEN em.value ELSE em.error

\* The callback of stage i is invoked for em and throws.
CallbackThrows(i, em) == Invokes(i, em) /\ Throws(stages[i].fn, CallbackArg(em))

Received(i, op) ==
    /\ ctl.at = i
    /\ ctl.msg = "yield"
    /\ stages[i].op = op
    /\ ~CallbackThrows(i, ctl.em)

Yields(i, body) ==
    /\ ctl' = [at |-> i + 1, msg |-> "yield", em |-> body.yield]
    /\ gen' = [gen EXCEPT ![i].pc = "yield"]
    /\ hist' = [hist EXCEPT !.calls = @ \o [k \in 1..Len(body.called) |->
                                               [stage |-> i, arg |-> body.called[k]]]]

Delegates(i, body) ==
    /\ ctl' = [at |-> i, msg |-> "next"]
    /\ gen' = [gen EXCEPT ![i].pc = "sub", ![i].sub = body.nextStream,
                          ![i].subArgs = gen[i].args]
    /\ hist' = [hist EXCEPT !.calls = @ \o [k \in 1..Len(body.called) |->
                                               [stage |-> i, arg |-> body.called[k]]]]

MapStep(i) ==
    /\ Received(i, "map")
    /\ Yields(i, MapBody(stages[i].fn, ctl.em))
    /\ UNCHANGED <<source, stages, runCtx, out, settled, chained>>
    /\ UNCHANGED <<taskVars, httpVars, runVars, libVars>>

MapErrorStep(i) ==
    /\ Received(i, "mapError")
    /\ Yields(i, MapErrorBody(stages[i].fn, ctl.em))
    /\ UNCHANGED <<source, stages, runCtx, out, settled, chained>>
    /\ UNCHANGED <<taskVars, httpVars, runVars, libVars>>

OrElseMapStep(i) ==
    /\ Received(i, "orElseMap")
    /\ Yields(i, OrElseMapBody(stages[i].fn, ctl.em))
    /\ UNCHANGED <<source, stages, runCtx, out, settled, chained>>
    /\ UNCHANGED <<taskVars, httpVars, runVars, libVars>>

FlatMapStep(i) ==
    /\ Received(i, "flatMap")
    /\ LET body == FlatMapBody(stages[i].fn, ctl.em) IN
        IF body.delegate THEN Delegates(i, body) ELSE Yields(i, body)
    /\ UNCHANGED <<source, stages, runCtx, out, settled, chained>>
    /\ UNCHANGED <<taskVars, httpVars, runVars, libVars>>

OrElseStep(i) ==
    /\ Received(i, "orElse")
    /\ LET body == OrElseBody(stages[i].fn, ctl.em) IN
        IF body.delegate THEN Delegates(i, body) ELSE Yields(i, body)
    /\ UNCHANGED <<source, stages, runCtx, out, settled, chained>>
    /\ UNCHANGED <<taskVars, httpVars, runVars, libVars>>

\* The callback of stage i throws inside the loop body: the for-await loop is
\* left, which returns the generators below; the exception leaves the generator.
StageThrows(i) ==
    /\ ctl.at = i
    /\ ctl.msg = "yield"
    /\ CallbackThrows(i, ctl.em)
    /\ gen' = [j \in DOMAIN gen |-> IF j <= i THEN [gen[j] EXCEPT !.pc = "done"] ELSE gen[j]]
    /\ hist' = [hist EXCEPT !.calls = Append(@, [stage |-> i, arg |-> CallbackArg(ctl.em)])]
    /\ ctl' = [at |-> i + 1, msg |-> "throw", exc |-> "callback threw"]
    /\ UNCHANGED <<source, stages, runCtx, out, settled, chained>>
    /\ UNCHANGED <<taskVars, httpVars, runVars, libVars>>

\* next() on prev rejected: the exception leaves the loop and the generator.
StageRethrows(i) ==
    /\ ctl.at = i
    /\ ctl.msg = "throw"
    /\ gen' = [gen EXCEPT ![i].pc = "done"]
    /\ ctl' = [ctl EXCEPT !.at = i + 1]
    /\ UNCHANGED <<source, stages, runCtx, out, hist, settled, chained>>
    /\ UNCHANGED <<taskVars, httpVars, runVars, libVars>>

\* The consumer's for-await loop throws: collectProgress rejects.
ConsumerThrows ==
    /\ ctl.at = Consumer
    /\ ctl.msg = "throw"
    /\ ctl' = [ctl EXCEPT !.msg = "threw"]
    /\ UNCHANGED <<source, stages, runCtx, gen, out, hist, settled, chained>>
    /\ UNCHANGED <<taskVars, httpVars, runVars, libVars>>

\* Stream.toTask: await collectProgress(...) throws; the Task's run rejects.
ToTaskRejects ==
    /\ ctl.at = Consumer
    /\ ctl.msg = "threw"
    /\ settled = Pending
    /\ settled' = Rejected(ctl.exc, <<>>)
    /\ UNCHANGED <<source, stages, runCtx, gen, ctl, out, hist, chained>>
    /\ UNCHANGED <<taskVars, httpVars, runVars, libVars>>

\* prev is exhausted: the loop and the generator's body end.
StageReturn(i) ==
    /\ ctl = [at |-> i, msg |-> "done"]
    /\ gen' = [gen EXCEPT ![i].pc = "done"]
    /\ ctl' = [at |-> i + 1, msg |-> "done"]
    /\ UNCHANGED <<source, stages, runCtx, out, hist, settled, chained>>
    /\ UNCHANGED <<taskVars, httpVars, runVars, libVars>>

\* Stream.toTask: collectProgress has returned; the Task's run settles.
ToTaskSettle ==
    /\ ctl = [at |-> Consumer, msg |-> "end"]
    /\ settled = Pending
    /\ settled' = ToTaskBody(out)
    /\ UNCHANGED <<source, stages, runCtx, gen, ctl, out, hist, chained>>
    /\ UNCHANGED <<taskVars, httpVars, runVars, libVars>>

\* A Task combinator chained on stream.toTask(), run with the same arguments.
ChainedTask(op, fn) ==
    CASE op = "mapError" -> TaskMapError(Settled(settled), fn)
      [] op = "orElseMap" -> TaskOrElseMap(Settled(settled), fn)
      [] op = "orElse" -> TaskOrElse(Settled(settled), fn)

ChainFns(op) ==
    CASE op = "mapError" -> ErrFns
      [] op = "orElseMap" -> ErrValueFns
      [] op = "orElse" -> {TaskFn("f", [e \in Errors |-> d]) : d \in LeafDescs}

ToTaskThen ==
    /\ settled # Pending
    /\ chained = [op |-> "none"]
    /\ \E op \in {"mapError", "orElseMap", "orElse"} :
        \E fn \in ChainFns(op) :
            chained' = [op |-> op, outcome |-> ChainedTask(op, fn)[runCtx]]
    /\ UNCHANGED <<source, stages, runCtx, gen, ctl, out, hist, settled>>
    /\ UNCHANGED <<taskVars, httpVars, runVars, libVars>>

Next ==
    \/ Run
    \/ ConsumerNext
    \/ ConsumerPush
    \/ ConsumerEnd
    \/ SourceYield
    \/ SourceReturn
    \/ ToStreamYield
    \/ ToStreamReturn
    \/ \E i \in 1..Top : StageStart(i)
    \/ \E i \in 1..Top : StageResume(i)
    \/ \E i \in 1..Top : SubYield(i)
    \/ \E i \in 1..Top : SubReturn(i)
    \/ \E i \in 1..Top : MapStep(i)
    \/ \E i \in 1..Top : MapErrorStep(i)
    \/ \E i \in 1..Top : OrElseMapStep(i)
    \/ \E i \in 1..Top : FlatMapStep(i)
    \/ \E i \in 1..Top : OrElseStep(i)
    \/ \E i \in 1..Top : StageReturn(i)
    \/ ToTaskSettle
    \/ ToTaskThen

Spec == Init /\ [][Next]_vars

----------------------------------------------------------------------------
\* Runs of composed Tasks: task.run(io, signal) for a composition of leaf
\* Tasks and callbacks, beside the run it is compared with.

StreamOff ==
    /\ source = CreateSource
    /\ stages = <<>>
    /\ runCtx = DefaultCtx
    /\ gen = [i \in 0..0 |-> Fresh]
    /\ ctl = [at |-> 0, msg |-> "off"]
    /\ out = <<>>
    /\ hist = [pulls |-> 0, yielded |-> <<>>, calls |-> <<>>, runs |-> <<>>]
    /\ settled = Pending
    /\ chained = [op |-> "none"]

InitTask ==
    /\ StreamOff
    /\ TaskIdle
    /\ LibIdle
    /\ HttpIdle
    /\ RunIdle

TaskTables == [Values -> LeafDescs]

RecoveryTables == [Errors -> LeafDescs]

IdFn == ValueFn("id", [x \in Values |-> x])

\* m.map(fn) beside m
RunMap ==
    /\ ctl.msg = "off"
    /\ tlaw = "none"
    /\ tlaw' = "map"
    /\ \E m \in LeafDescs, f \in [Values -> Values], c \in Ctx :
        /\ targs' = [m |-> m, f |-> f, c |-> c]
        /\ lhs' = TaskMap(LeafTask(m), ValueFn("f", f))[c]
        /\ rhs' = LeafTask(m)[c]
    /\ UNCHANGED <<streamVars, httpVars, runVars, libVars>>

\* m.map(x => x) beside m
RunMapIdentity ==
    /\ ctl.msg = "off"
    /\ tlaw = "none"
    /\ tlaw' = "mapIdentity"
    /\ \E m \in LeafDescs, c \in Ctx :
        /\ targs' = [m |-> m, c |-> c]
        /\ lhs' = TaskMap(LeafTask(m), IdFn)[c]
        /\ rhs' = LeafTask(m)[c]
    /\ UNCHANGED <<streamVars, httpVars, runVars, libVars>>

\* m.map(f).map(g) beside m.map(x => g(f(x)))
RunMapComposition ==
    /\ ctl.msg = "off"
    /\ tlaw = "none"
    /\ tlaw' = "mapComposition"
    /\ \E m \in LeafDescs, f \in [Values -> Values], g \in [Values -> Values], c \in Ctx :
        /\ targs' = [m |-> m, f |-> f, g |-> g, c |-> c]
        /\ lhs' = TaskMap(TaskMap(LeafTask(m), ValueFn("f", f)), ValueFn("g", g))[c]
        /\ rhs' = TaskMap(LeafTask(m), Compose(ValueFn("f", f), ValueFn("g", g)))[c]
    /\ UNCHANGED <<streamVars, httpVars, runVars, libVars>>

\* m.flatMap(f) beside m
RunFlatMap ==
    /\ ctl.msg = "off"
    /\ tlaw = "none"
    /\ tlaw' = "flatMap"
    /\ \E m \in LeafDescs, f \in TaskTables, c \in Ctx :
        /\ targs' = [m |-> m, f |-> f, c |-> c]
        /\ lhs' = TaskFlatMap(LeafTask(m), TaskFn("f", f))[c]
        /\ rhs' = LeafTask(m)[c]
    /\ UNCHANGED <<streamVars, httpVars, runVars, libVars>>

\* Task.of(a).flatMap(f) beside f(a)
RunLeftIdentity ==
    /\ ctl.msg = "off"
    /\ tlaw = "none"
    /\ tlaw' = "leftIdentity"
    /\ \E a \in Values, f \in TaskTables, c \in Ctx :
        /\ targs' = [a |-> a, f |-> f, c |-> c]
        /\ lhs' = TaskFlatMap(TaskOf(a), TaskFn("f", f))[c]
        /\ rhs' = TaskFn("f", f).at[a][c]
    /\ UNCHANGED <<streamVars, httpVars, runVars, libVars>>

\* m.flatMap(x => Task.of(x)) beside m
RunRightIdentity ==
    /\ ctl.msg = "off"
    /\ tlaw = "none"
    /\ tlaw' = "rightIdentity"
    /\ \E m \in LeafDescs, c \in Ctx :
        /\ targs' = [m |-> m, c |-> c]
        /\ lhs' = TaskFlatMap(LeafTask(m), OfFn)[c]
        /\ rhs' = LeafTask(m)[c]
    /\ UNCHANGED <<streamVars, httpVars, runVars, libVars>>

\* m.flatMap(f).flatMap(g) beside m.flatMap(x => f(x).flatMap(g))
RunAssociativity ==
    /\ ctl.msg = "off"
    /\ tlaw = "none"
    /\ tlaw' = "associativity"
    /\ \E m \in LeafDescs, f \in TaskTables, g \in TaskTables, c \in Ctx :
        /\ targs' = [m |-> m, f |-> f, g |-> g, c |-> c]
        /\ lhs' = TaskFlatMap(TaskFlatMap(LeafTask(m), TaskFn("f", f)), TaskFn("g", g))[c]
        /\ rhs' = TaskFlatMap(LeafTask(m), ThenFn(TaskFn("f", f), TaskFn("g", g)))[c]
    /\ UNCHANGED <<streamVars, httpVars, runVars, libVars>>

\* m.mapError(fn) beside m
RunMapError ==
    /\ ctl.msg = "off"
    /\ tlaw = "none"
    /\ tlaw' = "mapError"
    /\ \E m \in LeafDescs, f \in [Errors -> Errors], c \in Ctx :
        /\ targs' = [m |-> m, f |-> f, c |-> c]
        /\ lhs' = TaskMapError(LeafTask(m), ValueFn("f", f))[c]
        /\ rhs' = LeafTask(m)[c]
    /\ UNCHANGED <<streamVars, httpVars, runVars, libVars>>

\* m.orElse(fn) beside m
RunOrElse ==
    /\ ctl.msg = "off"
    /\ tlaw = "none"
    /\ tlaw' = "orElse"
    /\ \E m \in LeafDescs, f \in RecoveryTables, c \in Ctx :
        /\ targs' = [m |-> m, f |-> f, c |-> c]
        /\ lhs' = TaskOrElse(LeafTask(m), TaskFn("f", f))[c]
        /\ rhs' = LeafTask(m)[c]
    /\ UNCHANGED <<streamVars, httpVars, runVars, libVars>>

\* m.orElse(f).orElse(g) beside m.orElse(f)
RunOrElseChain ==
    /\ ctl.msg = "off"
    /\ tlaw = "none"
    /\ tlaw' = "orElseChain"
    /\ \E m \in LeafDescs, f \in RecoveryTables, g \in RecoveryTables, c \in Ctx :
        /\ targs' = [m |-> m, f |-> f, g |-> g, c |-> c]
        /\ lhs' = TaskOrElse(TaskOrElse(LeafTask(m), TaskFn("f", f)), TaskFn("g", g))[c]
        /\ rhs' = TaskOrElse(LeafTask(m), TaskFn("f", f))[c]
    /\ UNCHANGED <<streamVars, httpVars, runVars, libVars>>

\* m.orElseMap(fn) beside m
RunOrElseMap ==
    /\ ctl.msg = "off"
    /\ tlaw = "none"
    /\ tlaw' = "orElseMap"
    /\ \E m \in LeafDescs, f \in [Errors -> Values], c \in Ctx :
        /\ targs' = [m |-> m, f |-> f, c |-> c]
        /\ lhs' = TaskOrElseMap(LeafTask(m), ValueFn("f", f))[c]
        /\ rhs' = LeafTask(m)[c]
    /\ UNCHANGED <<streamVars, httpVars, runVars, libVars>>

NextTask ==
    \/ RunMap
    \/ RunMapIdentity
    \/ RunMapComposition
    \/ RunFlatMap
    \/ RunLeftIdentity
    \/ RunRightIdentity
    \/ RunAssociativity
    \/ RunMapError
    \/ RunOrElse
    \/ RunOrElseChain
    \/ RunOrElseMap

SpecTask == InitTask /\ [][NextTask]_vars

\* Both: a Stream pipeline's run, or a run of a composed Task.
InitAll == Init \/ InitTask

NextAll == Next \/ NextTask

SpecAll == InitAll /\ [][NextAll]_vars

----------------------------------------------------------------------------
\* The retrying fetch, http(uri, opts, maxRetryMs, baseRetryMs, retryFactor):
\* the body of the async generator handed to Task.create, driven by a
\* consumer that requests every emission.  One action per stretch of the body
\* between two suspension points (an await or a yield).

\* Result constructors of the generator-based Task (io.ts).
success(value, progress) == [ok |-> TRUE, value |-> value, progress |-> progress]

failure(error, progress) == [ok |-> FALSE, error |-> error, progress |-> progress]

\* Math.pow for natural exponents, Math.min.
RECURSIVE Pow(_, _)
Pow(b, n) == IF n = 0 THEN 1 ELSE b * Pow(b, n - 1)

Min(a, b) == IF a <= b THEN a ELSE b

\* The arguments of http(): the defaults, and smaller ladders.
HttpParams ==
    {[maxRetryMs |-> 30000, baseRetryMs |-> 1000, retryFactor |-> 2],
     [maxRetryMs |-> 4, baseRetryMs |-> 1, retryFactor |-> 2],
     [maxRetryMs |-> 3, baseRetryMs |-> 2, retryFactor |-> 1],
     [maxRetryMs |-> (0 - 1), baseRetryMs |-> 1, retryFactor |-> 2]}

\* signal.reason: what abort(reason) was given, or the default AbortError.
Reasons ==
    {[isError |-> FALSE, text |-> "stop"],
     [isError |-> TRUE, name |-> "AbortError", message |-> "This operation was aborted"]}

\* String(value) of a string, and of an Error: "name: message".
String(v) == IF v.isError THEN v.name \o ": " \o v.message ELSE v.text

\* What a rejected io.http call throws: an Error or a plain string.
Thrown ==
    {[isError |-> TRUE, name |-> "TypeError", message |-> "io.http is not a function"],
     [isError |-> FALSE, text |-> "fetch failed"]}

\* catch (err): err instanceof Error ? err.message : String(err)
CaughtMessage(err) == IF err.isError THEN err.message ELSE String(err)

\* Responses of io.http: the status, the Content-Length header ("" for none)
\* and the lengths of the chunks of the body.
Responses ==
    {[ok |-> FALSE, statusText |-> "Service Unavailable", length |-> "", chunks |-> <<>>],
     [ok |-> TRUE, statusText |-> "OK", length |-> "", chunks |-> <<>>],
     [ok |-> TRUE, statusText |-> "OK", length |-> "3", chunks |-> <<1, 2>>]}

\* parseInt(lengthVal, 10) of the headers above.
ParseInt(lengthVal) == CASE lengthVal = "3" -> 3

Tokens == {[state |-> "undefined"], [state |-> "live"]}
              \cup {[state |-> "aborted", reason |-> r] : r \in Reasons}

HttpStart(params) ==
    [pc |-> "loop", params |-> params, attempt |-> 0, msg |-> "", ms |-> 0,
     timer |-> "none", calls |-> 0, waits |-> <<>>, emitted |-> <<>>,
     resp |-> <<>>, chunks |-> <<>>, byteSize |-> 0, last |-> "none"]

InitHttp ==
    /\ StreamOff
    /\ TaskIdle
    /\ LibIdle
    /\ RunIdle
    /\ \E params \in HttpParams : http = HttpStart(params)
    /\ token \in Tokens

\* while (ms <= maxRetryMs) is false: return yield failure({message: msg, canRetry: true})
HttpGiveUp ==
    /\ http.pc = "loop"
    /\ ~(http.ms <= http.params.maxRetryMs)
    /\ http' = [http EXCEPT !.pc = "final",
                            !.emitted = Append(@, failure([message |-> http.msg,
                                                           canRetry |-> TRUE], NoProgress))]
    /\ UNCHANGED token
    /\ UNCHANGED <<streamVars, taskVars, runVars, libVars>>

\* The signal checked only after the capability call was made.
HttpCancelledAfterCall ==
    /\ http.pc = "loop"
    /\ http.ms <= http.params.maxRetryMs
    /\ token.state = "aborted"
    /\ http' = [http EXCEPT !.pc = "final", !.calls = @ + 1,
                            !.emitted = Append(@, failure([message |-> String(token.reason),
                                                           canRetry |-> FALSE], NoProgress))]
    /\ UNCHANGED token
    /\ UNCHANGED <<streamVars, taskVars, runVars, libVars>>

\* if (signal?.aborted) return yield failure({message: String(signal.reason), canRetry: false})
HttpCancelled ==
    /\ http.pc = "loop"
    /\ http.ms <= http.params.maxRetryMs
    /\ token.state = "aborted"
    /\ http' = [http EXCEPT !.pc = "final",
                            !.emitted = Append(@, failure([message |-> String(token.reason),
                                                           canRetry |-> FALSE], NoProgress))]
    /\ UNCHANGED token
    /\ UNCHANGED <<streamVars, taskVars, runVars, libVars>>

\* const resp = await io.http(uri, { ...opts, signal }): the call is made.
HttpCall ==
    /\ http.pc = "loop"
    /\ http.ms <= http.params.maxRetryMs
    /\ token.state # "aborted"
    /\ http.calls < MaxAttempt
    /\ http' = [http EXCEPT !.pc = "call", !.calls = @ + 1]
    /\ UNCHANGED token
    /\ UNCHANGED <<streamVars, taskVars, runVars, libVars>>

\* The delay computed without the ceiling.
BackoffUncapped(msg) ==
    LET ms == http.params.baseRetryMs * Pow(http.params.retryFactor, http.attempt)
    IN [http EXCEPT !.pc = "wait", !.msg = msg, !.ms = ms, !.attempt = @ + 1,
                    !.timer = "armed", !.waits = Append(@, ms)]

\* The statements after a failed attempt, up to the await of the timer's promise.
Backoff(msg) ==
    LET ms == Min(http.params.baseRetryMs * Pow(http.params.retryFactor, http.attempt),
                  http.params.maxRetryMs)
    IN [http EXCEPT !.pc = "wait", !.msg = msg, !.ms = ms, !.attempt = @ + 1,
                    !.timer = "armed", !.waits = Append(@, ms)]

\* The call resolves to a response with ok = false.
HttpRefused ==
    /\ http.pc = "call"
    /\ \E resp \in Responses :
        /\ ~resp.ok
        /\ http' = [Backoff(resp.statusText) EXCEPT !.last = "refused"]
    /\ UNCHANGED token
    /\ UNCHANGED <<streamVars, taskVars, runVars, libVars>>

\* The call's exception leaving the generator: next() rejects.
HttpThrowsEscapes ==
    /\ http.pc = "call"
    /\ http' = [http EXCEPT !.pc = "threw", !.last = "threw"]
    /\ UNCHANGED token
    /\ UNCHANGED <<streamVars, taskVars, runVars, libVars>>

\* The call rejects, or io.http is not callable: catch (err).
HttpThrows ==
    /\ http.pc = "call"
    /\ \E err \in Thrown : http' = [Backoff(CaughtMessage(err)) EXCEPT !.last = "threw"]
    /\ UNCHANGED token
    /\ UNCHANGED <<streamVars, taskVars, runVars, libVars>>

\* The call resolves to a response with ok = true.
HttpOk ==
    /\ http.pc = "call"
    /\ \E resp \in Responses :
        /\ resp.ok
        /\ http' = IF resp.length # "" /\ resp.chunks # <<>>
                   THEN [http EXCEPT !.pc = "body", !.resp = resp, !.chunks = resp.chunks,
                                     !.byteSize = 0, !.last = "ok"]
                   ELSE [http EXCEPT !.pc = "final", !.resp = resp, !.last = "ok",
                                     !.emitted = Append(@, success(resp, Prog(1, 1)))]
    /\ UNCHANGED token
    /\ UNCHANGED <<streamVars, taskVars, runVars, libVars>>

\* for await (const chunk of resp.body): yield success(resp, {total: maxBytes, current: byteSize})
HttpChunk ==
    /\ http.pc = "body"
    /\ http.chunks # <<>>
    /\ http' = [http EXCEPT !.chunks = Tail(@),
                            !.byteSize = @ + Head(http.chunks),
                            !.emitted = Append(@, success(http.resp,
                                Prog(ParseInt(http.resp.length),
                                     http.byteSize + Head(http.chunks))))]
    /\ UNCHANGED token
    /\ UNCHANGED <<streamVars, taskVars, runVars, libVars>>

\* Reading the body throws inside the try block: catch (err).
HttpBodyThrows ==
    /\ http.pc = "body"
    /\ \E err \in Thrown :
        http' = [Backoff(CaughtMessage(err)) EXCEPT !.last = "bodyThrew"]
    /\ UNCHANGED token
    /\ UNCHANGED <<streamVars, taskVars, runVars, libVars>>

\* The body is read: return yield success(resp, {total: 1, current: 1})
HttpBodyEnd ==
    /\ http.pc = "body"
    /\ http.chunks = <<>>
    /\ http' = [http EXCEPT !.pc = "final",
                            !.emitted = Append(@, success(http.resp, Prog(1, 1)))]
    /\ UNCHANGED token
    /\ UNCHANGED <<streamVars, taskVars, runVars, libVars>>

\* Resumed after return yield: the generator returns.
HttpReturn ==
    /\ http.pc = "final"
    /\ http' = [http EXCEPT !.pc = "done"]
    /\ UNCHANGED token
    /\ UNCHANGED <<streamVars, taskVars, runVars, libVars>>

\* setTimeout(done, ms) fires: the awaited promise resolves, the loop goes round.
TimerFires ==
    /\ http.pc = "wait"
    /\ http.timer = "armed"
    /\ http' = [http EXCEPT !.pc = "loop", !.timer = "none"]
    /\ UNCHANGED token
    /\ UNCHANGED <<streamVars, taskVars, runVars, libVars>>

\* The token's owner aborts.  The listener the current wait registered runs:
\* clearTimeout(tId).
Abort ==
    /\ http.pc \in {"loop", "call", "wait", "body"}
    /\ token.state = "live"
    /\ \E r \in Reasons : token' = [state |-> "aborted", reason |-> r]
    /\ http' = IF http.pc = "wait" THEN [http EXCEPT !.timer = "cleared"] ELSE http
    /\ UNCHANGED <<streamVars, taskVars, runVars, libVars>>

\* The steps of the fetch's own run.
HttpStep ==
    \/ HttpGiveUp
    \/ HttpCancelled
    \/ HttpCall
    \/ HttpRefused
    \/ HttpThrows
    \/ HttpOk
    \/ HttpChunk
    \/ HttpBodyThrows
    \/ HttpBodyEnd
    \/ HttpReturn
    \/ TimerFires

NextHttp ==
    \/ HttpGiveUp
    \/ HttpCancelled
    \/ HttpCall
    \/ HttpRefused
    \/ HttpThrows
    \/ HttpOk
    \/ HttpChunk
    \/ HttpBodyThrows
    \/ HttpBodyEnd
    \/ HttpReturn
    \/ TimerFires
    \/ Abort

SpecHttp == InitHttp /\ [][NextHttp]_vars

----------------------------------------------------------------------------
\* Runs of one Task value, step by step.  The value is constructed (a leaf,
\* then one combinator after another); then run is called on it, at most
\* twice, and the two runs interleave at their suspension points: the await
\* of prev(io, signal) in each combinator's initializer, and the settling of a
\* leaf's promise.

\* Leaves: one of each kind of LeafDescs, and an initializer that throws.
RunLeaves ==
    {[k |-> "of", v |-> 1], [k |-> "reject", e |-> "e1"], [k |-> "io"],
     [k |-> "cancellable", v |-> 2, e |-> "e2"], [k |-> "throws"]}

\* The settled promise of a leaf initializer invoked with c.
LeafRun(d, c) ==
    IF d.k = "throws" THEN Rejected("leaf threw", <<>>) ELSE LeafTask(d)[c]

\* The callbacks each combinator is composed with.
RunFns(op) ==
    CASE op = "map" ->
            {Callback([x \in Values |-> 3 - x], {}), Callback([x \in Values |-> x], {2})}
      [] op = "mapError" ->
            {Callback([e \in Errors |-> IF e = "e1" THEN "e2" ELSE "e1"], {"e2"})}
      [] op = "orElseMap" ->
            {Callback([e \in Errors |-> ErrVal(e)], {"e2"})}
      [] op = "flatMap" ->
            {Callback([x \in Values |-> IF x = 1 THEN [k |-> "cancellable", v |-> 2, e |-> "e2"]
                                        ELSE [k |-> "reject", e |-> "e1"]], {}),
             Callback([x \in Values |-> [k |-> "io"]], {2})}
      [] op = "orElse" ->
            {Callback([e \in Errors |-> IF e = "e1" THEN [k |-> "of", v |-> 1]
                                        ELSE [k |-> "reject", e |-> "e2"]], {})}

Ops == {"map", "mapError", "orElseMap", "flatMap", "orElse"}

\* What a run has done, in order: a leaf initializer invoked with (io, signal),
\* its promise settled, a callback invoked.
Started(i, d, c) == [ev |-> "start", stage |-> i, leaf |-> d, ctx |-> c]

SettledEv(i) == [ev |-> "settle", stage |-> i]

Called(i, arg) == [ev |-> "call", stage |-> i, arg |-> arg]

RunFresh == [pc |-> "idle", at |-> 0, log |-> <<>>]

\* The arguments handed on without the token.
ForwardedWithoutSignal(r) == [runs[r].ctx EXCEPT !.signal = "undefined"]

\* The awaited result kept in one place for all runs of the Task value: a run
\* resumed while another run holds a result reads that one.
AwaitedShared(r) ==
    IF \E q \in DOMAIN runs : q # r /\ runs[q].pc = "resume"
    THEN runs[CHOOSE q \in DOMAIN runs : q # r /\ runs[q].pc = "resume"].cur
    ELSE runs[r].cur

\* The (io, signal) a combinator's initializer hands to prev and to the run of
\* the Task its callback returns: what its own run received.
Forwarded(r) == runs[r].ctx

\* The result of await prev(io, signal) in run r.
Awaited(r) == runs[r].cur

\* A combinator's initializer after the await, for stage i of run r: either it
\* settles (returns a Result, or throws), or it returns the run of the Task
\* its callback gave.
Settle(cur, called) == [start |-> FALSE, cur |-> cur, called |-> called]

\* The callback invoked twice for one result.
ContinueCallsTwice(leaf, called) == [start |-> TRUE, leaf |-> leaf, called |-> called \o called]

Continue(leaf, called) == [start |-> TRUE, leaf |-> leaf, called |-> called]

StageBody(stage, cur) ==
    LET fn == stage.fn IN
    IF cur.kind = "rejected" THEN Settle(cur, <<>>)
    ELSE CASE stage.op = "map" ->
                IF isFailure(cur.result) THEN Settle(cur, <<>>)
                ELSE IF Throws(fn, cur.result.value)
                     THEN Settle(Rejected("callback threw", <<>>), <<[value |-> cur.result.value]>>)
                     ELSE Settle(Resolved(taskOk(fn.at[cur.result.value]), <<>>),
                                 <<[value |-> cur.result.value]>>)
           [] stage.op = "mapError" ->
                IF ~isFailure(cur.result) THEN Settle(cur, <<>>)
                ELSE IF Throws(fn, cur.result.error)
                     THEN Settle(Rejected("callback threw", <<>>), <<[error |-> cur.result.error]>>)
                     ELSE Settle(Resolved(taskFail(fn.at[cur.result.error]), <<>>),
                                 <<[error |-> cur.result.error]>>)
           [] stage.op = "orElseMap" ->
                IF ~isFailure(cur.result) THEN Settle(cur, <<>>)
                ELSE IF Throws(fn, cur.result.error)
                     THEN Settle(Rejected("callback threw", <<>>), <<[error |-> cur.result.error]>>)
                     ELSE Settle(Resolved(taskOk(fn.at[cur.result.error]), <<>>),
                                 <<[error |-> cur.result.error]>>)
           [] stage.op = "flatMap" ->
                IF isFailure(cur.result) THEN Settle(cur, <<>>)
                ELSE IF Throws(fn, cur.result.value)
                     THEN Settle(Rejected("callback threw", <<>>), <<[value |-> cur.result.value]>>)
                     ELSE Continue(fn.at[cur.result.value], <<[value |-> cur.result.value]>>)
           [] stage.op = "orElse" ->
                IF ~isFailure(cur.result) THEN Settle(cur, <<>>)
                ELSE IF Throws(fn, cur.result.error)
                     THEN Settle(Rejected("callback threw", <<>>), <<[error |-> cur.result.error]>>)
                     ELSE Continue(fn.at[cur.result.error], <<[error |-> cur.result.error]>>)

Runs == 1..2

InitRun ==
    /\ StreamOff
    /\ TaskIdle
    /\ LibIdle
    /\ HttpIdle
    /\ \E d \in RunLeaves : task = [phase |-> "built", leaf |-> d, stages |-> <<>>]
    /\ runs = [r \in Runs |-> RunFresh]

\* task.map(fn), task.flatMap(fn), ...: new Task(init), this.run = init.bind(this).
Combine ==
    /\ task.phase = "built"
    /\ \A r \in Runs : runs[r].pc = "idle"
    /\ Len(task.stages) < MaxStages
    /\ \E op \in Ops : \E fn \in RunFns(op) :
        task' = [task EXCEPT !.stages = Append(@, Stage(op, fn))]
    /\ UNCHANGED runs
    /\ UNCHANGED <<streamVars, taskVars, httpVars, libVars>>

\* task.run(io, signal): every initializer down to the leaf's is entered, each
\* calling prev(io, signal); the leaf's initializer is invoked.
RunCall(r) ==
    /\ task.phase = "built"
    /\ runs[r].pc = "idle"
    /\ \A q \in Runs : q < r => runs[q].pc \notin {"idle", "absent"}
    /\ \E c \in Ctx :
        /\ \A q \in Runs : runs[q].pc # "idle" => runs[q].ctx.io = c.io
        /\ runs' = [runs EXCEPT ![r] =
              [pc |-> "leaf", at |-> 0, ctx |-> c,
               log |-> <<Started(0, task.leaf, c)>>,
               inLeaf |-> [leaf |-> task.leaf, ctx |-> c]]]
    /\ UNCHANGED task
    /\ UNCHANGED <<streamVars, taskVars, httpVars, libVars>>

\* The promise of the leaf in progress settles: the initializer awaiting it
\* is resumed later.
LeafSettles(r) ==
    /\ task.phase = "built"
    /\ runs[r].pc = "leaf"
    /\ runs' = [runs EXCEPT ![r] =
          [pc |-> "resume", at |-> runs[r].at + 1, ctx |-> runs[r].ctx,
           log |-> Append(runs[r].log, SettledEv(runs[r].at)),
           cur |-> LeafRun(runs[r].inLeaf.leaf, runs[r].inLeaf.ctx)]]
    /\ UNCHANGED task
    /\ UNCHANGED <<streamVars, taskVars, httpVars, libVars>>

\* The initializer of stage at is resumed with the result it awaited.
StageRuns(r) ==
    /\ task.phase = "built"
    /\ runs[r].pc = "resume"
    /\ runs[r].at <= Len(task.stages)
    /\ LET i == runs[r].at
           body == StageBody(task.stages[i], Awaited(r))
           log == runs[r].log \o [k \in 1..Len(body.called) |-> Called(i, body.called[k])]
       IN runs' = [runs EXCEPT ![r] =
              IF body.start
              THEN [pc |-> "leaf", at |-> i, ctx |-> runs[r].ctx,
                    log |-> Append(log, Started(i, body.leaf, Forwarded(r))),
                    inLeaf |-> [leaf |-> body.leaf, ctx |-> Forwarded(r)]]
              ELSE [pc |-> "resume", at |-> i + 1, ctx |-> runs[r].ctx,
                    log |-> log, cur |-> body.cur]]
    /\ UNCHANGED task
    /\ UNCHANGED <<streamVars, taskVars, httpVars, libVars>>

\* The outermost initializer has returned: the promise of run(io, signal) settles.
RunSettles(r) ==
    /\ task.phase = "built"
    /\ runs[r].pc = "resume"
    /\ runs[r].at = Len(task.stages) + 1
    /\ runs' = [runs EXCEPT ![r] =
          [pc |-> "settled", at |-> runs[r].at, ctx |-> runs[r].ctx,
           log |-> runs[r].log, result |-> runs[r].cur]]
    /\ UNCHANGED task
    /\ UNCHANGED <<streamVars, taskVars, httpVars, libVars>>

NextRun ==
    \/ Combine
    \/ \E r \in Runs : RunCall(r)
    \/ \E r \in Runs : LeafSettles(r)
    \/ \E r \in Runs : StageRuns(r)
    \/ \E r \in Runs : RunSettles(r)

SpecRun == InitRun /\ [][NextRun]_vars

\* Streams whose callbacks may throw, next to the runs of one Task value.

\* The callbacks a Stream combinator is composed with; each throws on one
\* argument.
PartialFns(op) ==
    CASE op = "map" -> {Callback([x \in Values |-> 3 - x], {2})}
      [] op = "mapError" ->
            {Callback([e \in Errors |-> IF e = "e1" THEN "e2" ELSE "e1"], {"e2"})}
      [] op = "orElseMap" -> {Callback([e \in Errors |-> ErrVal(e)], {"e2"})}
      [] op = "flatMap" -> {Callback([x \in Values |-> Script(<<TRUE, FALSE>>, x)], {2})}
      [] op = "orElse" -> {Callback([e \in Errors |-> Script(<<TRUE>>, ErrVal(e))], {"e2"})}

\* One combinator, or map followed by a recovery.
IsPartialPipeline(p) ==
    \/ \E op \in Ops : \E f \in PartialFns(op) : p = <<Stage(op, f)>>
    \/ \E f \in PartialFns("map") : \E op \in {"orElseMap", "orElse"} :
            \E g \in PartialFns(op) : p = <<Stage("map", f), Stage(op, g)>>

InitPartial ==
    /\ IsPartialPipeline(stages)
    /\ \/ source = CreateSource /\ runCtx = DefaultCtx
       \/ source \in ToStreamSources /\ runCtx \in Ctx
    /\ gen = [i \in 0..Len(stages) |-> Fresh]
    /\ ctl = [at |-> Len(stages) + 1, msg |-> "new"]
    /\ out = <<>>
    /\ hist = [pulls |-> 0, yielded |-> <<>>, calls |-> <<>>, runs |-> <<>>]
    /\ settled = Pending
    /\ chained = [op |-> "none"]
    /\ TaskIdle
    /\ LibIdle
    /\ HttpIdle
    /\ RunIdle

InitBoth == InitPartial \/ InitRun

NextBoth ==
    \/ Next
    \/ \E i \in 1..Top : StageThrows(i)
    \/ \E i \in 1..Top : StageRethrows(i)
    \/ ConsumerThrows
    \/ ToTaskRejects
    \/ ConsumerStops
    \/ NextRun

SpecBoth == InitBoth /\ [][NextBoth]_vars

----------------------------------------------------------------------------
\* fold (assert.ts).

valid(x) == [valid |-> TRUE, value |-> x]

invalid(message) == [valid |-> FALSE, error |-> <<[message |-> message]>>]

isValid(x) == x.valid

\* The reduction functions fold is called with: (a, b) => a + b and (a, b) => b.
Reducers == {"sum", "last"}

Reduce(f, acc, x) == IF f = "sum" THEN acc + x ELSE x

RECURSIVE fold(_, _, _)
fold(xs, acc, f) ==
    IF xs = <<>> THEN acc
    ELSE IF isValid(acc)
         THEN IF isValid(Head(xs))
              THEN fold(Tail(xs), valid(Reduce(f, acc.value, Head(xs).value)), f)
              ELSE Head(xs)
         ELSE acc

\* The assertions the lists are made of, and the initial accumulators.
Asserted == {valid(1), valid(2), invalid("E1"), invalid("E2")}

Accumulators == {valid(0), invalid("E0")}

InitFold ==
    /\ StreamOff
    /\ TaskIdle
    /\ HttpIdle
    /\ RunIdle
    /\ legacy = [pc |-> "off"]
    /\ \E n \in 0..MaxList : \E xs \in [1..n -> Asserted] : \E acc \in Accumulators :
            folded = [pc |-> "args", xs |-> xs, acc |-> acc]

\* fold(xs, acc, f) is called and returns.
Fold ==
    /\ folded.pc = "args"
    /\ \E f \in Reducers :
        folded' = [pc |-> "done", xs |-> folded.xs, acc |-> folded.acc, f |-> f,
                   result |-> fold(folded.xs, folded.acc, f)]
    /\ UNCHANGED legacy
    /\ UNCHANGED <<streamVars, taskVars, httpVars, runVars>>

NextFold == Fold

SpecFold == InitFold /\ [][NextFold]_vars

----------------------------------------------------------------------------
\* The generator-based Task (the class with total and current fields): one
\* Task value and two runs of it, each with the states its initializer yields
\* for the arguments of that run.

taskErr(canRetry, errs) == [ok |-> FALSE, errs |-> errs, canRetry |-> canRetry]

taskUpdate(value, total, current) ==
    [ok |-> TRUE, value |-> value, total |-> total, current |-> current]

\* What an initializer yields: an update with progress, an update with the
\* default total and current, an error.
LegacyStates ==
    {taskUpdate(1, 3, 1), taskUpdate(2, 0 - 1, 0 - 1), taskErr(TRUE, <<"e1">>)}

LegacyScripts == UNION {[1..n -> LegacyStates] : n \in 0..MaxYields}

LegacyRuns == 1..2

\* new Task(init): total = -1, current = -1.
InitLegacy ==
    /\ StreamOff
    /\ TaskIdle
    /\ HttpIdle
    /\ RunIdle
    /\ folded = [pc |-> "off"]
    /\ legacy = [pc |-> "made", total |-> 0 - 1, current |-> 0 - 1,
                 runs |-> [r \in LegacyRuns |-> [pc |-> "idle"]], log |-> <<>>]

\* task.run(io, signal): exec's generator is made, its body not entered.
LegacyRun(r) ==
    /\ legacy.pc = "made"
    /\ legacy.runs[r].pc = "idle"
    /\ \A q \in LegacyRuns : q < r => legacy.runs[q].pc # "idle"
    /\ \E script \in LegacyScripts :
        legacy' = [legacy EXCEPT !.runs[r] = [pc |-> "created", script |-> script, pos |-> 0]]
    /\ UNCHANGED folded
    /\ UNCHANGED <<streamVars, taskVars, httpVars, runVars>>

\* The state yielded kept in the run, the instance's fields left alone.
LegacyYieldLocal(r) ==
    /\ legacy.pc = "made"
    /\ legacy.runs[r].pc \in {"created", "suspended"}
    /\ legacy.runs[r].pos < Len(legacy.runs[r].script)
    /\ LET taskState == legacy.runs[r].script[legacy.runs[r].pos + 1] IN
        legacy' = [legacy EXCEPT !.runs[r].pc = "suspended",
                                 !.runs[r].pos = @ + 1,
                                 !.log = Append(@, [run |-> r, state |-> taskState])]
    /\ UNCHANGED folded
    /\ UNCHANGED <<streamVars, taskVars, httpVars, runVars>>

\* next() on exec's generator: init yields taskState; if (taskState.ok) the
\* instance's total and current are overwritten; yield taskState.
LegacyYield(r) ==
    /\ legacy.pc = "made"
    /\ legacy.runs[r].pc \in {"created", "suspended"}
    /\ legacy.runs[r].pos < Len(legacy.runs[r].script)
    /\ LET taskState == legacy.runs[r].script[legacy.runs[r].pos + 1] IN
        legacy' = [legacy EXCEPT !.total = IF taskState.ok THEN taskState.total ELSE @,
                                 !.current = IF taskState.ok THEN taskState.current ELSE @,
                                 !.runs[r].pc = "suspended",
                                 !.runs[r].pos = @ + 1,
                                 !.log = Append(@, [run |-> r, state |-> taskState])]
    /\ UNCHANGED folded
    /\ UNCHANGED <<streamVars, taskVars, httpVars, runVars>>

\* next() on exec's generator: init is exhausted, the loop and exec end.
LegacyReturn(r) ==
    /\ legacy.pc = "made"
    /\ legacy.runs[r].pc \in {"created", "suspended"}
    /\ legacy.runs[r].pos = Len(legacy.runs[r].script)
    /\ legacy' = [legacy EXCEPT !.runs[r].pc = "done"]
    /\ UNCHANGED folded
    /\ UNCHANGED <<streamVars, taskVars, httpVars, runVars>>

NextLegacy ==
    \/ \E r \in LegacyRuns : LegacyRun(r)
    \/ \E r \in LegacyRuns : LegacyYield(r)
    \/ \E r \in LegacyRuns : LegacyReturn(r)

SpecLegacy == InitLegacy /\ [][NextLegacy]_vars

----------------------------------------------------------------------------
\* Properties of Stream runs.

Finished == ctl.at = Consumer /\ ctl.msg = "end"

SingleStage(op) == Len(stages) = 1 /\ stages[1].op = op

IsPrefix(a, b) == Len(a) <= Len(b) /\ a = SubSeq(b, 1, Len(a))

Successes(ys) == SelectSeq(ys, LAMBDA e : e.ok)

Failures(ys) == SelectSeq(ys, LAMBDA e : ~e.ok)

\* The source failure at position k was followed by another next() on the source.
PulledAfterFailure ==
    \E k \in 1..Len(hist.yielded) : ~hist.yielded[k].ok /\ hist.pulls > k

\* ys with every success replaced by the emissions of fn's stream for it.
RECURSIVE Spliced(_, _)
Spliced(fn, ys) ==
    IF ys = <<>> THEN <<>>
    ELSE (IF Head(ys).ok THEN fn.at[Head(ys).value] ELSE <<Head(ys)>>)
             \o Spliced(fn, Tail(ys))

\* ys with every failure replaced by the emissions of fn's stream for it.
RECURSIVE Recovered(_, _)
Recovered(fn, ys) ==
    IF ys = <<>> THEN <<>>
    ELSE (IF Head(ys).ok THEN <<Head(ys)>> ELSE fn.at[Head(ys).error])
             \o Recovered(fn, Tail(ys))

C3_OrderedAndDrained ==
    SingleStage("flatMap") =>
        /\ IsPrefix(out, Spliced(stages[1].fn, hist.yielded))
        /\ ctl.at = 0 =>
            /\ out = Spliced(stages[1].fn, hist.yielded)
            /\ gen[1].sub = <<>>

\* Two source successes, each with a sub-stream of two emissions, all four
\* delivered.
C3_Witness ==
    /\ SingleStage("flatMap")
    /\ Finished
    /\ Len(hist.yielded) = 2
    /\ hist.yielded[1].ok
    /\ hist.yielded[2].ok
    /\ hist.yielded[1].value # hist.yielded[2].value
    /\ Len(out) = 4

\* The plain Result of an emission: its progress metadata dropped.
Plain(e) == IF e.ok THEN [ok |-> TRUE, value |-> e.value] ELSE [ok |-> FALSE, error |-> e.error]

\* C8: the Task from toTask() settles only once the stream is exhausted, and
\* for a stream of n >= 1 emissions it resolves to the n-th emission's value
\* or error without progress metadata, whatever came before.
C8_ResolvesToLast ==
    settled # Pending =>
        /\ Finished
        /\ \A i \in 0..Top : gen[i].pc = "done"
        /\ Top = 0 => out = hist.yielded
        /\ Len(out) >= 1 => settled = Resolved(Plain(out[Len(out)]), <<>>)

\* A stream consumed directly by toTask: failure, success, success resolves to
\* the last success; and success, failure resolves to the failure.
C8_Witness ==
    /\ Top = 0
    /\ source = CreateSource
    /\ settled # Pending
    /\ Len(hist.yielded) = 3
    /\ ~hist.yielded[1].ok
    /\ hist.yielded[3].ok
    /\ hist.yielded[2].value # hist.yielded[3].value
    /\ settled.kind = "resolved"
    /\ settled.result = [ok |-> TRUE, value |-> hist.yielded[3].value]

\* C9: when the stream ends without an emission, the run of the Task from
\* toTask() rejects instead of resolving to a Failure, and mapError, orElse
\* and orElseMap chained on it reject the same way without their callback
\* being invoked.
C9_EmptyStreamRejects ==
    (settled # Pending /\ out = <<>>) =>
        /\ settled.kind = "rejected"
        /\ chained.op # "none" =>
            /\ chained.outcome.kind = "rejected"
            /\ chained.outcome.err = settled.err
            /\ chained.outcome.calls = <<>>

\* An empty stream through toTask().orElse(f).
C9_Witness ==
    /\ Finished
    /\ out = <<>>
    /\ hist.pulls = 1
    /\ settled # Pending
    /\ chained.op = "orElse"

\* C10: t.toStream().toTask(), run with the arguments t would be run with,
\* resolves to the Result of t; for Task.of(v) that is ok(v).
C10_RoundTrip ==
    (source.kind = "toStream" /\ Top = 0 /\ settled # Pending) =>
        /\ settled.kind = "resolved"
        /\ settled.result = LeafTask(source.task)[runCtx].result
        /\ source.task.k = "of" => settled.result = [ok |-> TRUE, value |-> source.task.v]

\* The round trip of a Task that fails because the token it was run with is
\* signaled.
C10_Witness ==
    /\ source.kind = "toStream"
    /\ Top = 0
    /\ source.task.k = "cancellable"
    /\ runCtx.signal = "aborted"
    /\ settled # Pending
    /\ settled.kind = "resolved"
    /\ ~settled.result.ok

----------------------------------------------------------------------------
\* Properties of Task runs.

SameResult(a, b) ==
    /\ a.kind = b.kind
    /\ a.kind = "resolved" => a.result = b.result

Invoked(outcome, name) == \E k \in 1..Len(outcome.calls) : outcome.calls[k].fn = name

\* C4: when the run of m resolves to a failure, the run of m.flatMap(f)
\* resolves to a failure with the same error and f is not invoked.
C4_FlatMapShortCircuits ==
    (tlaw = "flatMap" /\ rhs.kind = "resolved" /\ isFailure(rhs.result)) =>
        /\ lhs.kind = "resolved"
        /\ isFailure(lhs.result)
        /\ lhs.result.error = rhs.result.error
        /\ ~Invoked(lhs, "f")

\* m.flatMap(f) run for a Task m that fails with "e2".
C4_Witness ==
    /\ tlaw = "flatMap"
    /\ targs.m.k = "reject"
    /\ rhs.result = [ok |-> FALSE, error |-> "e2"]
    /\ lhs.result = rhs.result

\* C5: left identity, right identity and associativity of Task.flatMap with
\* Task.of as unit: both sides of each law settle to the same Result.
C5_MonadLaws ==
    tlaw \in {"leftIdentity", "rightIdentity", "associativity"} => SameResult(lhs, rhs)

\* Associativity on a run where f and g were both invoked and g's Task failed.
C5_Witness ==
    /\ tlaw = "associativity"
    /\ Invoked(lhs, "f")
    /\ Invoked(lhs, "g")
    /\ isFailure(lhs.result)
    /\ lhs.result = rhs.result

\* The emissions ys mapped by fn: successes through fn, progress and failures kept.
MapSeq(fn, ys) ==
    [k \in 1..Len(ys) |->
        IF ys[k].ok THEN progOk(fn.at[ys[k].value], ys[k].progress) ELSE ys[k]]

\* C6: functor laws of map.  Task: m.map(x => x) settles as m, m.map(f).map(g)
\* as m.map(x => g(f(x))).  Stream: the whole sequence of emissions, progress
\* metadata included, of m.map(x => x) is m's, and that of m.map(f).map(g) is
\* that of m.map(x => g(f(x))).
C6_FunctorLaws ==
    /\ tlaw \in {"mapIdentity", "mapComposition"} => SameResult(lhs, rhs)
    /\ (Finished /\ SingleStage("map")) =>
        /\ out = MapSeq(stages[1].fn, hist.yielded)
        /\ stages[1].fn.at = IdFn.at => out = hist.yielded
    /\ (Finished /\ Len(stages) = 2) =>
        out = MapSeq(Compose(stages[1].fn, stages[2].fn), hist.yielded)

\* m.map(f).map(g) on a stream of a success with progress, a failure and a
\* success, with f and g not the identity.
C6_Witness ==
    /\ Finished
    /\ Len(stages) = 2
    /\ stages[1].fn.at # IdFn.at
    /\ stages[2].fn.at # IdFn.at
    /\ Len(out) = 3
    /\ hist.yielded[1].ok
    /\ hist.yielded[1].progress.has
    /\ ~hist.yielded[2].ok
    /\ hist.yielded[3].ok
    /\ out[3].value # hist.yielded[3].value

\* C7: for a Task whose run resolves to a failure, orElseMap(f) resolves to a
\* success with value f(error), and orElse(f) resolves to the success of
\* f(error) when that Task succeeds.
C7_RecoveryTotal ==
    /\ (tlaw = "orElseMap" /\ rhs.kind = "resolved" /\ isFailure(rhs.result)) =>
        lhs = Resolved([ok |-> TRUE, value |-> targs.f[rhs.result.error]],
                       <<[fn |-> "f", arg |-> rhs.result.error]>>)
    /\ (tlaw = "orElse" /\ rhs.kind = "resolved" /\ isFailure(rhs.result)) =>
        LET recovery == LeafTask(targs.f[rhs.result.error])[targs.c] IN
        (recovery.kind = "resolved" /\ recovery.result.ok) =>
            (lhs.kind = "resolved" /\ lhs.result = recovery.result)

\* orElse on a Task failing on a signaled token, recovered by a Task reading
\* the capability object.
C7_Witness ==
    /\ tlaw = "orElse"
    /\ targs.m.k = "cancellable"
    /\ isFailure(rhs.result)
    /\ targs.f[rhs.result.error].k = "io"
    /\ targs.c.io.testValue = 2
    /\ lhs.result = [ok |-> TRUE, value |-> 2]

\* C21: for a Task m that succeeds, m.orElse(f) settles as m and f is not
\* invoked; for a Task m that fails, f is invoked exactly once, with the error,
\* and m.orElse(f) settles to the Result of f(error), a failure of the
\* recovery included; a further orElse(g) then invokes g with the recovery's
\* error and settles to the Result of g of it.
C21_RecoveryReplaces ==
    /\ (tlaw = "orElse" /\ rhs.kind = "resolved") =>
        IF rhs.result.ok
        THEN lhs = rhs
        ELSE LET recovery == LeafTask(targs.f[rhs.result.error])[targs.c] IN
             /\ lhs.calls = <<[fn |-> "f", arg |-> rhs.result.error]>>
             /\ SameResult(lhs, recovery)
    /\ (tlaw = "orElseChain" /\ rhs.kind = "resolved") =>
        IF rhs.result.ok
        THEN lhs = rhs
        ELSE LET recovery == LeafTask(targs.g[rhs.result.error])[targs.c] IN
             /\ lhs.calls = Append(rhs.calls, [fn |-> "g", arg |-> rhs.result.error])
             /\ SameResult(lhs, recovery)

\* m fails with "e1", f("e1") fails with "e2", g("e2") succeeds: the outcome of
\* m.orElse(f).orElse(g) is g's success.
C21_Witness ==
    /\ tlaw = "orElseChain"
    /\ targs.m = [k |-> "reject", e |-> "e1"]
    /\ rhs.result = [ok |-> FALSE, error |-> "e2"]
    /\ Len(lhs.calls) = 2
    /\ lhs.calls[2].arg = "e2"
    /\ lhs.result.ok

----------------------------------------------------------------------------
\* C11: one run of t.toStream() invokes t's run exactly once, with the
\* arguments of the stream's run, and yields exactly one emission: t's value
\* or error with progress {current: 1, total: 1}; the stream is then exhausted.
C11_SingleEmission ==
    source.kind = "toStream" =>
        LET r == LeafTask(source.task)[runCtx].result
            em == IF r.ok THEN [ok |-> TRUE, value |-> r.value, progress |-> Prog(1, 1)]
                  ELSE [ok |-> FALSE, error |-> r.error, progress |-> Prog(1, 1)]
        IN
        /\ gen[0].pc \in {"none", "created"} => (hist.runs = <<>> /\ hist.yielded = <<>>)
        /\ gen[0].pc \in {"yield", "done"} => (hist.runs = <<runCtx>> /\ hist.yielded = <<em>>)
        /\ (Finished /\ Top = 0) => (out = <<em>> /\ hist.pulls = 2)

\* task.toStream() of a failing Task consumed to its end.
C11_Witness ==
    /\ source.kind = "toStream"
    /\ source.task = [k |-> "reject", e |-> "e2"]
    /\ Top = 0
    /\ Finished
    /\ out = <<[ok |-> FALSE, error |-> "e2", progress |-> Prog(1, 1)]>>
    /\ Len(hist.runs) = 1

\* C20: Task.map and Task.mapError each touch one channel.  On a failing Task
\* map(f) does not invoke f and resolves to the same failure; on a succeeding
\* Task it resolves to ok(f(value)).  On a succeeding Task mapError(g) does not
\* invoke g and resolves to the same success; on a failing Task it resolves to
\* a failure with error g(error).
C20_OneChannel ==
    /\ (tlaw = "map" /\ rhs.kind = "resolved") =>
        /\ lhs.kind = "resolved"
        /\ isFailure(rhs.result) => (lhs.result = rhs.result /\ ~Invoked(lhs, "f"))
        /\ ~isFailure(rhs.result) =>
            lhs.result = [ok |-> TRUE, value |-> targs.f[rhs.result.value]]
    /\ (tlaw = "mapError" /\ rhs.kind = "resolved") =>
        /\ lhs.kind = "resolved"
        /\ ~isFailure(rhs.result) => (lhs.result = rhs.result /\ ~Invoked(lhs, "f"))
        /\ isFailure(rhs.result) =>
            lhs.result = [ok |-> FALSE, error |-> targs.f[rhs.result.error]]

\* mapError(g) on a Task failing with "e1", g taking "e1" to "e2".
C20_Witness ==
    /\ tlaw = "mapError"
    /\ rhs.result = [ok |-> FALSE, error |-> "e1"]
    /\ targs.f["e1"] = "e2"
    /\ lhs.result = [ok |-> FALSE, error |-> "e2"]

----------------------------------------------------------------------------
\* Properties of the retrying fetch.

\* The delay computed after the k-th failed attempt, before the ceiling is applied.
NextDelay(k) == http.params.baseRetryMs * Pow(http.params.retryFactor, k)

\* C12: the retrying fetch stops retrying once the next delay would exceed
\* maxRetryMs: no capability call is made after a failed attempt whose
\* computed delay exceeded the ceiling.
C12_StopsAtCeiling ==
    http.pc = "call" =>
        \A k \in 0..(http.attempt - 1) : NextDelay(k) <= http.params.maxRetryMs

\* C13: when the token is signaled while the fetch waits between two
\* attempts, the run does not stay suspended: some step of the run can be taken.
C13_WaitAbandoned ==
    (http.pc = "wait" /\ token.state = "aborted") => ENABLED HttpStep

\* C14: when the token is already signaled at the start of an attempt, the
\* fetch emits a failure with canRetry = false whose message is the signal's
\* reason, without a capability call in that attempt; and no call is made
\* once it has emitted its final result.
C14_SignaledStopsAttempt ==
    [][/\ (http.pc = "loop" /\ http.ms <= http.params.maxRetryMs /\ token.state = "aborted") =>
            /\ http'.pc = "final"
            /\ http'.calls = http.calls
            /\ http'.emitted = Append(http.emitted,
                   [ok |-> FALSE,
                    error |-> [message |-> IF token.reason.isError
                                           THEN "AbortError: This operation was aborted"
                                           ELSE token.reason.text,
                               canRetry |-> FALSE],
                    progress |-> NoProgress])
       /\ http.pc \in {"final", "done"} =>
            /\ http'.pc \in {"final", "done"}
            /\ http'.calls = http.calls
            /\ http'.emitted = http.emitted]_vars

\* A later attempt that finds the token signaled: two calls were made, the
\* token was aborted during the second, and the third attempt made none.
C14_Witness ==
    /\ http.pc = "done"
    /\ http.calls = 2
    /\ http.attempt = 2
    /\ Len(http.emitted) = 1
    /\ http.emitted[1].error.canRetry = FALSE
    /\ http.emitted[1].error.message = "AbortError: This operation was aborted"

\* C24: the wait after the k-th failed attempt (k from 0) lasts
\* min(baseRetryMs * retryFactor^k, maxRetryMs): no wait is longer than
\* maxRetryMs, and for retryFactor >= 1 no wait is shorter than the one before.
C24_CappedBackoff ==
    http.pc # "off" =>
        /\ Len(http.waits) = http.attempt
        /\ \A k \in 1..Len(http.waits) :
            /\ http.waits[k] = Min(NextDelay(k - 1), http.params.maxRetryMs)
            /\ http.waits[k] <= http.params.maxRetryMs
            /\ (k > 1 /\ http.params.retryFactor >= 1) => http.waits[k - 1] <= http.waits[k]

\* Four failed attempts with ceiling 4, base 1 and factor 2: the fourth wait
\* is the ceiling and not 8.
C24_Witness ==
    /\ http.params = [maxRetryMs |-> 4, baseRetryMs |-> 1, retryFactor |-> 2]
    /\ http.waits = <<1, 2, 4, 4>>

\* C27: an exception thrown by the capability call never leaves the run:
\* right after it the run is waiting before the next attempt, with the
\* exception's message recorded and nothing emitted for it.
C27_ExceptionsCaught ==
    /\ http.pc # "threw"
    /\ (http.last = "threw" /\ http.pc = "wait") =>
        /\ http.msg \in {"io.http is not a function", "fetch failed"}
        /\ http.waits # <<>>
        /\ http.ms = http.waits[Len(http.waits)]
        /\ \A k \in 1..Len(http.emitted) : http.emitted[k].ok

\* The capability is absent: the first call threw a TypeError, the run waited
\* and has made a second call.
C27_Witness ==
    /\ http.last = "threw"
    /\ http.msg = "io.http is not a function"
    /\ http.pc = "call"
    /\ http.calls = 2
    /\ http.emitted = <<>>

\* C28: once a capability call has returned a response with ok = true, the
\* run makes no further call and does not wait; when it has ended its last
\* emission is the success of that response with progress {total: 1,
\* current: 1}; and no success emission is followed by a failure emission.
C28_StopsAtFirstSuccess ==
    /\ http.resp # <<>> =>
        /\ http.pc \in {"body", "final", "done"}
        /\ http.pc = "done" =>
               http.emitted[Len(http.emitted)] = success(http.resp, Prog(1, 1))
    /\ \A k \in 1..(Len(http.emitted) - 1) :
            http.emitted[k].ok => http.emitted[k + 1].ok

----------------------------------------------------------------------------
\* Properties of the runs of one Task value.

\* The outcome of one run on its own: the leaf, then stage after stage.
RECURSIVE Alone(_, _)
Alone(n, c) ==
    IF n = 0 THEN LeafRun(task.leaf, c)
    ELSE LET body == StageBody(task.stages[n], Alone(n - 1, c)) IN
         IF body.start THEN LeafRun(body.leaf, c) ELSE body.cur

Events(log, ev) == SelectSeq(log, LAMBDA x : x.ev = ev)

\* Leaf initializers invoked and not yet settled.
InProgress(log) == Len(Events(log, "start")) - Len(Events(log, "settle"))

\* C16: two runs of one Task value with the same arguments, one after the
\* other or interleaved at their suspension points, settle to equal outcomes
\* after the same invocations; each run settles to what it would alone, and no
\* step of a run changes the Task value.
C16_RunsIndependent ==
    /\ task.phase = "built" =>
        /\ \A r \in Runs : runs[r].pc = "settled" =>
              runs[r].result = Alone(Len(task.stages), runs[r].ctx)
        /\ (runs[1].pc = "settled" /\ runs[2].pc = "settled" /\ runs[1].ctx = runs[2].ctx) =>
              /\ runs[1].result = runs[2].result
              /\ runs[1].log = runs[2].log

\* The second run, started while the first was in progress, has settled to a
\* failure of the continuation; the first, with the same arguments, has too.
C16_Witness ==
    /\ task.phase = "built"
    /\ Len(task.stages) = 2
    /\ task.stages[1].op = "flatMap"
    /\ runs[1].pc = "settled"
    /\ runs[2].pc = "settled"
    /\ runs[1].ctx = runs[2].ctx
    /\ runs[1].ctx.signal = "aborted"
    /\ Len(runs[1].log) >= 5
    /\ runs[1].result = runs[2].result

\* C18: in a run of source.flatMap(f), f is invoked at most once, after the
\* source's run has settled with a success, on that value; the continuation
\* starts after that call; no two leaf initializers of a run are in progress
\* at once; and the run's outcome is the continuation's, failures included.
C18_Sequential ==
    task.phase = "built" =>
        \A r \in Runs :
            /\ InProgress(runs[r].log) \in {0, 1}
            /\ (Len(task.stages) = 1 /\ task.stages[1].op = "flatMap") =>
                LET log == runs[r].log
                    fn == task.stages[1].fn
                IN
                /\ Len(Events(log, "call")) <= 1
                /\ \A k \in 1..Len(log) :
                    /\ log[k].ev = "call" =>
                        /\ k = 3
                        /\ log[2] = SettledEv(0)
                        /\ LeafRun(task.leaf, runs[r].ctx) =
                               Resolved([ok |-> TRUE, value |-> log[k].arg.value], <<>>)
                    /\ (log[k].ev = "start" /\ log[k].stage = 1) =>
                        /\ k = 4
                        /\ log[3].ev = "call"
                        /\ log[k].leaf = fn.at[log[3].arg.value]
                /\ (runs[r].pc = "settled" /\ Len(Events(log, "start")) = 2) =>
                    runs[r].result = LeafRun(log[4].leaf, runs[r].ctx)

\* of(1).flatMap(f) run with a signaled token: f(1) reads the token and fails,
\* and the run settles to that failure.
C18_Witness ==
    /\ task.phase = "built"
    /\ Len(task.stages) = 1
    /\ task.stages[1].op = "flatMap"
    /\ task.leaf = [k |-> "of", v |-> 1]
    /\ runs[1].pc = "settled"
    /\ Len(runs[1].log) = 5
    /\ runs[1].result = Resolved([ok |-> FALSE, error |-> "e2"], <<>>)

\* Properties of Tasks and Streams together.

\* No emission has been requested from the stream's run yet.
NothingRequested ==
    /\ ctl.at = Consumer
    /\ ctl.msg \in {"new", "idle"}
    /\ out = <<>>

C15_ForwardsUnchanged ==
    /\ task.phase = "built" =>
        \A r \in Runs :
            LET starts == Events(runs[r].log, "start") IN
            /\ \A k \in 1..Len(starts) : starts[k].ctx = runs[r].ctx
            /\ (/\ runs[r].pc = "settled"
                /\ \A k \in 1..Len(starts) : starts[k].leaf.k # "cancellable") =>
                    \A sig \in Signals :
                        Alone(Len(task.stages), [runs[r].ctx EXCEPT !.signal = sig])
                            = runs[r].result
    /\ ctl.msg # "off" =>
        /\ \A i \in DOMAIN gen :
            /\ gen[i].args \in {<<>>, <<runCtx>>}
            /\ gen[i].subArgs \in {<<>>, <<runCtx>>}
        /\ \A k \in 1..Len(hist.runs) : hist.runs[k] = runCtx

\* A run with a signaled token has gone through the source and two
\* continuations.
C15_Witness ==
    /\ task.phase = "built"
    /\ Len(task.stages) = 2
    /\ runs[1].pc = "settled"
    /\ runs[1].ctx.signal = "aborted"
    /\ Len(Events(runs[1].log, "start")) = 3

\* What a run's promise has settled to, or will once the initializers above
\* pass it on.
Outcome(r) == IF runs[r].pc = "settled" THEN runs[r].result ELSE runs[r].cur

Unwrapped(arg) == IF "value" \in DOMAIN arg THEN arg.value ELSE arg.error

\* C19: once a combinator's callback has thrown in a Task's run, nothing
\* more is invoked in that run and its promise rejects with the exception;
\* likewise after a leaf initializer has thrown; once a Stream combinator's
\* callback has thrown, no callback is invoked after it, every generator up
\* to that combinator's is finished, the iteration throws, and a Task made by
\* toTask rejects with the exception.
C19_ExceptionsReject ==
    /\ task.phase = "built" =>
        \A r \in Runs : \A k \in 1..Len(runs[r].log) :
            LET ev == runs[r].log[k] IN
            /\ (/\ ev.ev = "call"
                /\ Unwrapped(ev.arg) \in task.stages[ev.stage].fn.throwsOn) =>
                    /\ k = Len(runs[r].log)
                    /\ runs[r].pc \in {"resume", "settled"}
                    /\ Outcome(r) = Rejected("callback threw", <<>>)
            /\ (ev.ev = "start" /\ ev.leaf.k = "throws") =>
                    /\ k >= Len(runs[r].log) - 1
                    /\ k = Len(runs[r].log) - 1 =>
                        /\ runs[r].log[k + 1] = SettledEv(ev.stage)
                        /\ Outcome(r) = Rejected("leaf threw", <<>>)
    /\ ctl.msg # "off" =>
        \A k \in 1..Len(hist.calls) :
            LET c == hist.calls[k] IN
            c.arg \in stages[c.stage].fn.throwsOn =>
                /\ k = Len(hist.calls)
                /\ ctl.msg \in {"throw", "threw"}
                /\ \A j \in 0..c.stage : gen[j].pc = "done"
                /\ settled \in {Pending, Rejected("callback threw", <<>>)}

\* The callback of map has thrown in the run of task.map(f) composed with a
\* recovery: the run has rejected and the recovery's callback was not invoked.
C19_Witness ==
    /\ task.phase = "built"
    /\ Len(task.stages) = 2
    /\ task.stages[1].op = "map"
    /\ task.stages[2].op \in {"orElse", "orElseMap"}
    /\ runs[1].pc = "settled"
    /\ runs[1].result = Rejected("callback threw", <<>>)
    /\ Len(Events(runs[1].log, "call")) = 1

----------------------------------------------------------------------------
\* Further properties of Stream runs.

\* The emissions ys recovered by fn: failures become successes of fn(error)
\* with the failure's progress, successes are kept.
RecoverSeq(fn, ys) ==
    [k \in 1..Len(ys) |->
        IF ys[k].ok THEN ys[k] ELSE progOk(fn.at[ys[k].error], ys[k].progress)]

\* One call of the callback of stage 1 per failure the source yielded.
RecoveryCalls ==
    [k \in 1..Len(Failures(hist.yielded)) |->
        [stage |-> 1, arg |-> Failures(hist.yielded)[k].error]]

\* C22: at every moment of a run of m.orElseMap(f) the emissions delivered
\* are, position by position, m's emissions so far with every failure replaced
\* by a success of f(error) carrying the failure's progress; all are
\* successes; f is invoked once per failure; and when the run has ended there
\* are exactly as many as m yielded.
C22_ConvertsInPlace ==
    SingleStage("orElseMap") =>
        /\ IsPrefix(out, RecoverSeq(stages[1].fn, hist.yielded))
        /\ \A k \in 1..Len(out) : out[k].ok
        /\ IsPrefix(hist.calls, RecoveryCalls)
        /\ Finished =>
            /\ out = RecoverSeq(stages[1].fn, hist.yielded)
            /\ hist.calls = RecoveryCalls

\* A failure with progress between two successes, recovered in place.
C22_Witness ==
    /\ SingleStage("orElseMap")
    /\ Finished
    /\ Len(out) = 3
    /\ hist.yielded[1].ok
    /\ ~hist.yielded[2].ok
    /\ hist.yielded[2].progress.has
    /\ hist.yielded[3].ok
    /\ out[2].progress = hist.yielded[2].progress

\* The emissions ys with fn applied to the errors: failures through fn,
\* progress and successes kept.
MapErrorSeq(fn, ys) ==
    [k \in 1..Len(ys) |->
        IF ys[k].ok THEN ys[k] ELSE progFail(fn.at[ys[k].error], ys[k].progress)]

\* What the consumer is to receive for the source emissions ys.
Delivered(ys) ==
    IF stages = <<>> THEN ys
    ELSE IF stages[1].op = "map" THEN MapSeq(stages[1].fn, ys)
    ELSE MapErrorSeq(stages[1].fn, ys)

\* C23: in a run of a Stream consumed directly, through map(f) or through
\* mapError(f), the emissions delivered are at every moment, position by
\* position, the source's so far, each with the same ok flag and the same
\* progress, emissions after a failure included; map changes only the values
\* of successes, mapError only the errors of failures; when the run has ended
\* there are as many as the source yielded.
C23_PositionByPosition ==
    (stages = <<>> \/ SingleStage("map") \/ SingleStage("mapError")) =>
        /\ IsPrefix(out, Delivered(hist.yielded))
        /\ \A k \in 1..Len(out) :
            /\ out[k].ok = hist.yielded[k].ok
            /\ out[k].progress = hist.yielded[k].progress
            /\ (out[k].ok /\ ~SingleStage("map")) => out[k].value = hist.yielded[k].value
            /\ (~out[k].ok /\ ~SingleStage("mapError")) => out[k].error = hist.yielded[k].error
        /\ Finished => Len(out) = Len(hist.yielded)

\* A source yielding success, failure, success through mapError(f): three
\* emissions in that order, the failure's error changed.
C23_Witness ==
    /\ SingleStage("mapError")
    /\ Finished
    /\ Len(out) = 3
    /\ out[1].ok
    /\ ~out[2].ok
    /\ out[2].error # hist.yielded[2].error
    /\ out[2].progress.has
    /\ out[3].ok

\* One emission of the source per emission delivered: no combinator, or one
\* of map, mapError, orElseMap.
OneToOne ==
    \/ stages = <<>>
    \/ Len(stages) = 1 /\ stages[1].op \in {"map", "mapError", "orElseMap"}

\* C26: while the consumer holds control, between two requests or after it
\* has stopped, nothing is pulled from the source, no callback is invoked and
\* no Task is run; through map, mapError or orElseMap the source has then
\* yielded exactly the emissions delivered; and once the consumer has stopped
\* iterating, every generator made is finished, a sub-stream in progress keeps
\* its remaining emissions, and nothing is delivered any more.
C26_PullDriven ==
    [][/\ ctl.at = Consumer => hist' = hist
       /\ (ctl.msg # "off" /\ ctl'.at = Consumer /\ ctl'.msg \in {"idle", "stopped"} /\ OneToOne) =>
              /\ hist'.pulls = Len(out')
              /\ Len(hist'.yielded) = Len(out')
       /\ ctl'.msg = "stopped" =>
              /\ out' = out
              /\ \A i \in DOMAIN gen :
                    /\ gen'[i].pc \in {"none", "done"}
                    /\ gen'[i].sub = gen[i].sub
       /\ ctl.msg = "stopped" => (ctl' = ctl /\ gen' = gen /\ out' = out /\ hist' = hist)]_vars

\* The consumer of m.flatMap(f) stopped after one emission, with the
\* sub-stream of f half read.
C26_Witness ==
    /\ ctl = [at |-> Consumer, msg |-> "stopped"]
    /\ SingleStage("flatMap")
    /\ Len(out) = 1
    /\ gen[1].sub # <<>>
    /\ hist.pulls = 1

\* x => Stream.const(x)
ConstFn == [name |-> "f", at |-> [x \in Values |-> StreamConst(x)]]

\* The emissions ys with the progress of every success replaced by that of
\* Stream.const.
Reconst(ys) ==
    [k \in 1..Len(ys) |-> IF ys[k].ok THEN progOk(ys[k].value, Prog(1, 1)) ELSE ys[k]]

\* C29: m.flatMap(x => Stream.const(x)) delivers, position by position, m's
\* emissions with the same values and errors, every success carrying progress
\* {total: 1, current: 1} and every failure m's progress; as many as m
\* yielded when the run has ended.
C29_RightIdentityUpToProgress ==
    (SingleStage("flatMap") /\ stages[1].fn = ConstFn) =>
        /\ IsPrefix(out, Reconst(hist.yielded))
        /\ Finished => out = Reconst(hist.yielded)

\* A success with progress {total: 3, current: 2} and a failure with the
\* same progress: the success comes out with {1, 1}, the failure unchanged.
C29_Witness ==
    /\ SingleStage("flatMap")
    /\ stages[1].fn = ConstFn
    /\ Finished
    /\ hist.yielded = <<progOk(1, Prog(3, 2)), progFail("e1", Prog(3, 2))>>
    /\ out = <<progOk(1, Prog(1, 1)), progFail("e1", Prog(3, 2))>>

----------------------------------------------------------------------------
\* Properties of fold.

\* The errors of the invalid assertions of xs, in list order.
RECURSIVE AllErrors(_)
AllErrors(xs) ==
    IF xs = <<>> THEN <<>>
    ELSE (IF isValid(Head(xs)) THEN <<>> ELSE Head(xs).error) \o AllErrors(Tail(xs))

\* C25: folding a list that contains invalid assertions, from a valid
\* accumulator, gives an invalid result holding the errors of all the invalid
\* assertions in list order.
C25_FoldAccumulates ==
    (folded.pc = "done" /\ isValid(folded.acc) /\ AllErrors(folded.xs) # <<>>) =>
        /\ ~isValid(folded.result)
        /\ folded.result.error = AllErrors(folded.xs)

----------------------------------------------------------------------------
\* Properties of the generator-based Task.

\* The updates among the states yielded so far by all runs, in order.
Updates == SelectSeq(legacy.log, LAMBDA x : x.state.ok)

\* C30: the instance's total and current are -1 until a run yields an update,
\* and from then on those of the update yielded last by any run of the Task
\* value: every update overwrites them, an error leaves them as they were,
\* and after two interleaved runs they are those of whichever run yielded an
\* update last.
C30_SharedProgress ==
    legacy.pc = "made" =>
        IF Updates = <<>>
        THEN legacy.total = 0 - 1 /\ legacy.current = 0 - 1
        ELSE /\ legacy.total = Updates[Len(Updates)].state.total
             /\ legacy.current = Updates[Len(Updates)].state.current

\* Two interleaved runs, both finished: run 1 yielded an update with progress
\* 1 of 3, then run 2 an update without progress, then run 1 an error; the
\* instance holds run 2's -1 and -1.
C30_Witness ==
    /\ legacy.pc = "made"
    /\ \A r \in LegacyRuns : legacy.runs[r].pc = "done"
    /\ Len(legacy.log) = 3
    /\ legacy.log[1] = [run |-> 1, state |-> taskUpdate(1, 3, 1)]
    /\ legacy.log[2].run = 2
    /\ legacy.log[2].state.ok
    /\ legacy.log[3] = [run |-> 1, state |-> taskErr(TRUE, <<"e1">>)]
    /\ legacy.total = 0 - 1

====
